---- MODULE Spec2Model ----
(***************************************************************************)
(* The arbitrage scanner of app/scanners/arbitrage_scanner.py as a state   *)
(* machine: the continuous loop scan_continuously, the one-shot pass       *)
(* scan_for_arbitrage, and the fetch tasks fetch_ticker_for_exchange that  *)
(* both fan out through asyncio.gather.                                    *)
(*                                                                         *)
(* Numbers.  Prices, fees and amounts are Python floats in the source.     *)
(* They are modelled as exact rationals; the operators below follow the    *)
(* source's arithmetic step by step.                                       *)
(***************************************************************************)
EXTENDS Integers, Sequences, FiniteSets, TLC

\* ------------------------------------------------------------------ bounds
\* The loop of scan_continuously is a `while True`; the model stops
\* starting cycles after MaxScans.
MaxScans == 2
\* The source scans 11 base currencies; the model scans the last NumAssets.
NumAssets == 2

\* ----------------------------------------------------------- configuration
EXCHANGES == <<"bybit", "bitstamp">>

\* A trading pair "BASE/REST" is the record [base, rest]:
\* pair.startswith(f"{base_currency}/") is pair.base = base_currency.
Pair(b, r) == [base |-> b, rest |-> r]

EXCHANGE_TRADING_PAIRS ==
    [bybit |-> << Pair("BTC", "USDT:USDT"), Pair("ETH", "USDT:USDT"),
                  Pair("SOL", "USDT:USDT"), Pair("XRP", "USDT:USDT"),
                  Pair("ADA", "USDT:USDT"), Pair("DOT", "USDT:USDT"),
                  Pair("UNI", "USDT:USDT"), Pair("AAVE", "USDT:USDT"),
                  Pair("LINK", "USDT:USDT"), Pair("XLM", "USDT:USDT"),
                  Pair("SHIB", "USDT") >>,
     bitstamp |-> << Pair("BTC", "USD"), Pair("ETH", "USD"),
                     Pair("SOL", "USD"), Pair("XRP", "USD"),
                     Pair("ADA", "USD"), Pair("DOT", "USD"),
                     Pair("UNI", "USD"), Pair("AAVE", "USD"),
                     Pair("LINK", "USD"), Pair("XLM", "USD"),
                     Pair("SHIB", "USD") >>]

\* The pairs of a list whose base is not `base`.
Without(pairs, base) == SelectSeq(pairs, LAMBDA p : p.base # base)

\* The values of EXCHANGE_TRADING_PAIRS a deployment may run the scanner
\* with, by name: the shipped one; one in which bybit does not list SHIB;
\* one that has no entry for bitstamp.
Configurations ==
    [shipped |-> EXCHANGE_TRADING_PAIRS,
     bybit_without_SHIB |-> [EXCHANGE_TRADING_PAIRS EXCEPT !.bybit = Without(@, "SHIB")],
     no_entry_for_bitstamp |-> [e \in {"bybit"} |-> EXCHANGE_TRADING_PAIRS[e]]]

\* The name of the configuration of this run.
VARIABLE configuration

\* The value of EXCHANGE_TRADING_PAIRS that app.config holds in this run.
exchange_trading_pairs == Configurations[configuration]

\* ---------------------------------------------------------------- rationals
\* A number is the record [n, d, e2, e5] that stands for n/d * 2^e2 * 5^e5,
\* n and d coprime to each other and to 10, d > 0; zero is [0, 1, 0, 0].
\* Every rational has exactly one such record.  Keeping the powers of 2 and
\* 5 apart keeps n and d small for decimal fees and round notionals.
\* The scanners' steps compute the simulation exactly; the doubles of the
\* code, defined further down, give the same decision on every ticker map
\* those steps read (ExactDecisionOnScannerTickers).
RECURSIVE GCD(_, _)
GCD(a, b) == IF b = 0 THEN a ELSE GCD(b, a % b)

Abs(x) == IF x < 0 THEN -x ELSE x

Min(a, b) == IF a < b THEN a ELSE b

RECURSIVE Pow(_, _)
Pow(b, k) == IF k = 0 THEN 1 ELSE b * Pow(b, k - 1)

\* How often the prime p divides x > 0, and x without its factors p.
RECURSIVE Valuation(_, _)
Valuation(p, x) == IF x % p = 0 THEN 1 + Valuation(p, x \div p) ELSE 0

Strip(p, x) == x \div Pow(p, Valuation(p, x))

RZero == [n |-> 0, d |-> 1, e2 |-> 0, e5 |-> 0]

\* n/d * 2^e2 * 5^e5 for d # 0, as its record.
RNorm(n, d, e2, e5) ==
    IF n = 0 THEN RZero
    ELSE LET g == GCD(Abs(n), Abs(d))
             s == IF (n < 0) = (d < 0) THEN 1 ELSE -1
             an == Abs(n) \div g
             ad == Abs(d) \div g
         IN  [n |-> s * Strip(2, Strip(5, an)),
              d |-> Strip(2, Strip(5, ad)),
              e2 |-> e2 + Valuation(2, an) - Valuation(2, ad),
              e5 |-> e5 + Valuation(5, an) - Valuation(5, ad)]

Rat(n, d) == RNorm(n, d, 0, 0)

RInt(i) == Rat(i, 1)

\* x * y, cancelling across before multiplying.
RMul(x, y) ==
    LET g1 == GCD(Abs(x.n), y.d)
        g2 == GCD(Abs(y.n), x.d)
    IN  RNorm((x.n \div g1) * (y.n \div g2), (x.d \div g2) * (y.d \div g1),
              x.e2 + y.e2, x.e5 + y.e5)

\* x / y, for y # 0.
RDiv(x, y) ==
    RMul(x, [n |-> IF y.n < 0 THEN -y.d ELSE y.d, d |-> Abs(y.n),
             e2 |-> -y.e2, e5 |-> -y.e5])

RNeg(x) == [x EXCEPT !.n = -x.n]

\* x - y: both over the common powers of 2 and 5 and the least common
\* denominator.
RSub(x, y) ==
    IF y.n = 0 THEN x
    ELSE IF x.n = 0 THEN RNeg(y)
    ELSE LET m2 == Min(x.e2, y.e2)
             m5 == Min(x.e5, y.e5)
             xn == x.n * Pow(2, x.e2 - m2) * Pow(5, x.e5 - m5)
             yn == y.n * Pow(2, y.e2 - m2) * Pow(5, y.e5 - m5)
             g == GCD(x.d, y.d)
             l == (x.d \div g) * y.d
         IN  RNorm(xn * (l \div x.d) - yn * (l \div y.d), l, m2, m5)

RAdd(x, y) == RSub(x, RNeg(y))

\* x > y
RGt(x, y) == RSub(x, y).n > 0

\* ------------------------------------------------------ binary64 arithmetic
\* Python's float is the IEEE 754 binary64: every operation returns the
\* double nearest to the exact result, ties to the even mantissa.  A natural
\* number of any size is the sequence of its digits to the base 2^15, least
\* significant first, without leading zeros; zero is << >>.
Limb == 2^15

\* sys.float_info.mant_dig
mant_dig == 53

RECURSIVE NatTrim(_)
NatTrim(x) ==
    IF x # << >> /\ x[Len(x)] = 0 THEN NatTrim(SubSeq(x, 1, Len(x) - 1)) ELSE x

RECURSIVE NatOf(_)
NatOf(n) == IF n = 0 THEN << >> ELSE << n % Limb >> \o NatOf(n \div Limb)

Digit(x, i) == IF i <= Len(x) THEN x[i] ELSE 0

RECURSIVE NatAddFrom(_, _, _, _)
NatAddFrom(x, y, i, carry) ==
    IF i > Len(x) /\ i > Len(y)
    THEN IF carry = 0 THEN << >> ELSE << carry >>
    ELSE LET s == Digit(x, i) + Digit(y, i) + carry
         IN  << s % Limb >> \o NatAddFrom(x, y, i + 1, s \div Limb)

NatAdd(x, y) == NatTrim(NatAddFrom(x, y, 1, 0))

\* x - y, for x >= y.
RECURSIVE NatSubFrom(_, _, _, _)
NatSubFrom(x, y, i, borrow) ==
    IF i > Len(x) THEN << >>
    ELSE LET s == Digit(x, i) - Digit(y, i) - borrow
         IN  << IF s < 0 THEN s + Limb ELSE s >>
             \o NatSubFrom(x, y, i + 1, IF s < 0 THEN 1 ELSE 0)

NatSub(x, y) == NatTrim(NatSubFrom(x, y, 1, 0))

RECURSIVE NatLessFrom(_, _, _)
NatLessFrom(x, y, i) ==
    IF i = 0 THEN FALSE
    ELSE IF x[i] # y[i] THEN x[i] < y[i]
    ELSE NatLessFrom(x, y, i - 1)

\* x < y
NatLess(x, y) ==
    IF Len(x) # Len(y) THEN Len(x) < Len(y) ELSE NatLessFrom(x, y, Len(x))

\* x * d, for a digit d.
RECURSIVE NatScaleFrom(_, _, _, _)
NatScaleFrom(x, d, i, carry) ==
    IF i > Len(x)
    THEN IF carry = 0 THEN << >> ELSE << carry >>
    ELSE LET p == x[i] * d + carry
         IN  << p % Limb >> \o NatScaleFrom(x, d, i + 1, p \div Limb)

NatScale(x, d) == NatTrim(NatScaleFrom(x, d, 1, 0))

Zeros(q) == [i \in 1..q |-> 0]

\* x * 2^k
NatShl(x, k) ==
    IF x = << >> THEN << >> ELSE Zeros(k \div 15) \o NatScale(x, 2^(k % 15))

\* x \div 2^k
NatShr(x, k) ==
    LET r == k % 15
        y == SubSeq(x, (k \div 15) + 1, Len(x))
    IN  NatTrim([i \in 1..Len(y) |->
                    (y[i] \div 2^r) + (Digit(y, i + 1) % 2^r) * 2^(15 - r)])

RECURSIVE NatMulFrom(_, _, _)
NatMulFrom(x, y, i) ==
    IF i > Len(x) THEN << >>
    ELSE NatAdd(Zeros(i - 1) \o NatScale(y, x[i]), NatMulFrom(x, y, i + 1))

NatMul(x, y) == NatTrim(NatMulFrom(x, y, 1))

RECURSIVE Bits(_)
Bits(n) == IF n = 0 THEN 0 ELSE 1 + Bits(n \div 2)

\* The number of binary digits of x.
NatBits(x) == IF x = << >> THEN 0 ELSE 15 * (Len(x) - 1) + Bits(x[Len(x)])

Odd(x) == x # << >> /\ x[1] % 2 = 1

\* A double is sign * m * 2^e with m of exactly mant_dig binary digits, or
\* zero.  (The numbers of the simulation are far from the subnormal and the
\* overflow range.)
Float(s, m, e) == [sign |-> s, m |-> m, e |-> e]

FloatZero == Float(1, << >>, 0)

\* The double nearest to sign * (m + f) * 2^e, where 0 <= f < 1 and f > 0
\* exactly when `inexact`; a tie goes to the even mantissa.
RoundNearestEven(s, m, e, inexact) ==
    IF m = << >> THEN FloatZero
    ELSE LET len == NatBits(m)
         IN  IF len <= mant_dig
             THEN Float(s, NatShl(m, mant_dig - len), e - (mant_dig - len))
             ELSE LET sh == len - mant_dig
                      q == NatShr(m, sh)
                      lost == NatSub(m, NatShl(q, sh))
                      half == NatShl(NatOf(1), sh - 1)
                      up == IF NatLess(lost, half) THEN FALSE
                            ELSE IF NatLess(half, lost) THEN TRUE
                            ELSE inexact \/ Odd(q)
                      r == IF up THEN NatAdd(q, NatOf(1)) ELSE q
                  IN  IF NatBits(r) > mant_dig
                      THEN Float(s, NatShr(r, 1), e + sh + 1)
                      ELSE Float(s, r, e + sh)

\* float(n) for an int n > 0 (the operand conversion of int * float,
\* int / float and int + float).
float(n) == RoundNearestEven(1, NatOf(n), 0, FALSE)

\* x * y
float_mul(x, y) ==
    IF x.m = << >> \/ y.m = << >> THEN FloatZero
    ELSE RoundNearestEven(x.sign * y.sign, NatMul(x.m, y.m), x.e + y.e, FALSE)

\* x + y
float_add(x, y) ==
    IF x.m = << >> THEN y
    ELSE IF y.m = << >> THEN x
    ELSE LET e == Min(x.e, y.e)
             a == NatShl(x.m, x.e - e)
             b == NatShl(y.m, y.e - e)
         IN  IF x.sign = y.sign THEN RoundNearestEven(x.sign, NatAdd(a, b), e, FALSE)
             ELSE IF NatLess(a, b) THEN RoundNearestEven(y.sign, NatSub(b, a), e, FALSE)
             ELSE RoundNearestEven(x.sign, NatSub(a, b), e, FALSE)

\* x - y
float_sub(x, y) == float_add(x, [y EXCEPT !.sign = -y.sign])

\* The largest digit t of lo..hi with d * t <= r.
RECURSIVE QuotientDigit(_, _, _, _)
QuotientDigit(r, d, lo, hi) ==
    IF lo = hi THEN lo
    ELSE LET mid == (lo + hi + 1) \div 2
         IN  IF NatLess(r, NatScale(d, mid))
             THEN QuotientDigit(r, d, lo, mid - 1)
             ELSE QuotientDigit(r, d, mid, hi)

\* The quotient and remainder of qr.rem * Limb^k by d, for qr.rem < d, one
\* digit at a time behind the digits qr.q.
RECURSIVE LongDivision(_, _, _)
LongDivision(qr, d, k) ==
    IF k = 0 THEN qr
    ELSE LET r == IF qr.rem = << >> THEN << >> ELSE << 0 >> \o qr.rem
             t == QuotientDigit(r, d, 0, Limb - 1)
         IN  LongDivision([q |-> NatTrim(<< t >> \o qr.q),
                           rem |-> NatSub(r, NatScale(d, t))],
                          d, k - 1)

\* x / y for x, y # 0: the quotient of the mantissas to 60 binary places
\* and whether anything is left, rounded.
float_truediv(x, y) ==
    LET first == ~NatLess(x.m, y.m)
        qr == LongDivision([q |-> IF first THEN NatOf(1) ELSE << >>,
                            rem |-> IF first THEN NatSub(x.m, y.m) ELSE x.m],
                           y.m, 4)
    IN  RoundNearestEven(x.sign * y.sign, qr.q, x.e - y.e - 60, qr.rem # << >>)

\* x > 0
float_positive(x) == x.sign = 1 /\ x.m # << >>

\* EXCHANGE_FEES: 0.0004 = 1/2500, 0.0006 = 3/5000.
EXCHANGE_FEES ==
    [binance |-> Rat(1, 2500), bybit |-> Rat(3, 5000), bitstamp |-> Rat(1, 2500)]

\* EXCHANGE_FEES.get(exchange, 0.0)
FeeOf(exchange) ==
    IF exchange \in DOMAIN EXCHANGE_FEES THEN EXCHANGE_FEES[exchange] ELSE RInt(0)

\* A decimal literal n/d as Python reads it: the double nearest to it, which
\* is the quotient of the two whole numbers.
decimal(n, d) == float_truediv(float(n), float(d))

\* EXCHANGE_FEES.get(exchange, 0.0), the doubles.
float_FeeOf(exchange) ==
    IF exchange = "bybit" THEN decimal(6, 10000)
    ELSE IF exchange \in {"binance", "bitstamp"} THEN decimal(4, 10000)
    ELSE FloatZero

trade_amount_usd == 10000

\* The base currencies of the scan loops, in the source's order.
AllBaseCurrencies ==
    << "BTC", "ETH", "SOL", "XRP", "ADA", "DOT", "UNI", "AAVE", "LINK", "XLM", "SHIB" >>

BaseCurrencies ==
    SubSeq(AllBaseCurrencies, Len(AllBaseCurrencies) - NumAssets + 1,
           Len(AllBaseCurrencies))

\* ------------------------------------------------- what an exchange answers
\* A ticker as fetch_ticker returns it; bid or ask 0 stands for a missing
\* (None) or zero side, the values Python treats as false.
Ticker(b, a) == [bid |-> b, ask |-> a]

Tickers ==
    { Ticker(50000, 50010),  \* the low market
      Ticker(2990, 2999),    \* a second market, low side
      Ticker(3002, 3010),    \* bid 0.10003% above that low ask: fees eat the spread
      Ticker(50200, 50210),  \* bid 0.38% above the low ask
      Ticker(50200, 50010),  \* a crossed book
      Ticker(-1, 50010),     \* a negative bid
      Ticker(0, 50010),      \* bid missing
      Ticker(50000, 0) }     \* ask missing

\* What the awaited exchange.fetch_ticker(symbol) can do: return a ticker,
\* raise a ccxt.BaseError (network error, timeout, bad symbol; an
\* AttributeError is handled alike), or raise an exception of another type.
Response(k, b, a) == [kind |-> k, bid |-> b, ask |-> a]

Responses ==
    { Response("ticker", t.bid, t.ask) : t \in Tickers }
    \cup { Response("BaseError", 0, 0), Response("OtherError", 0, 0) }

\* The value of a finished task.
Result(k, b, a) == [kind |-> k, bid |-> b, ask |-> a]

None == Result("None", 0, 0)

Raised == Result("raised", 0, 0)

\* fetch_ticker_for_exchange from the answer of fetch_ticker on: the tuple
\* (exchange_name, {bid, ask}) when bid and ask are both truthy, None when
\* one is missing or the caught exception types were raised; any other
\* exception leaves the coroutine.
TickerResult(r) ==
    CASE r.kind = "ticker" /\ r.bid # 0 /\ r.ask # 0 -> Result("tuple", r.bid, r.ask)
      [] r.kind = "ticker" -> None
      [] r.kind = "BaseError" -> None
      [] OTHER -> Raised

\* next((pair for pair in exchange_pairs if pair.startswith(base + "/")), None):
\* the pairs of the exchange with that base, in list order.
\* Faulty variant: the test on the base currency dropped.
MatchingPairs_any(exchange, base_currency) ==
    exchange_trading_pairs[exchange]

MatchingPairs(exchange, base_currency) ==
    SelectSeq(exchange_trading_pairs[exchange], LAMBDA p : p.base = base_currency)

\* The task list built for one base currency: one coroutine per exchange of
\* EXCHANGES that is a key of EXCHANGE_TRADING_PAIRS and has a matching pair.
\* client is the coroutine's local `exchange`: "none" while it is None,
\* "open" once the ccxt client exists, "closed" after exchange.close().
\* finished is the rank at which the coroutine returned or raised among the
\* tasks of its list, 0 for one that has not.  defaultType is the market
\* type put into exchange_config: "unset" before the coroutine has run.
RECURSIVE TasksFrom(_, _)
TasksFrom(i, base_currency) ==
    IF i > Len(EXCHANGES) THEN << >>
    ELSE LET e == EXCHANGES[i]
             rest == TasksFrom(i + 1, base_currency)
         IN  IF e \in DOMAIN exchange_trading_pairs
                /\ MatchingPairs(e, base_currency) # << >>
             THEN << [exchange |-> e,
                      symbol |-> MatchingPairs(e, base_currency)[1],
                      st |-> "created",
                      client |-> "none",
                      finished |-> 0,
                      defaultType |-> "unset",
                      result |-> None] >> \o rest
             ELSE rest

CreateTasks(base_currency) == TasksFrom(1, base_currency)

\* Faulty variant: the results taken in the order in which the tasks ended,
\* as asyncio.as_completed hands them out.
BuildTickers_as_completed(results) ==
    LET sorted == [k \in 1..Len(results) |->
                      results[CHOOSE i \in 1..Len(results) : results[i].finished = k]]
        usable == SelectSeq(sorted, LAMBDA r : r.result.kind = "tuple")
    IN  [k \in 1..Len(usable) |->
            [exchange |-> usable[k].exchange, bid |-> usable[k].result.bid,
             ask |-> usable[k].result.ask]]

\* tickers = {}; for result in results: if result and len(result) == 2: ...
\* gather returns the results in the order of the task list, whatever the
\* order in which the tasks ended, and the dict keeps insertion order.
RECURSIVE BuildTickers(_)
BuildTickers(results) ==
    IF results = << >> THEN << >>
    ELSE LET r == Head(results)
         IN  IF r.result.kind = "tuple"
             THEN << [exchange |-> r.exchange, bid |-> r.result.bid,
                      ask |-> r.result.ask] >> \o BuildTickers(Tail(results))
             ELSE BuildTickers(Tail(results))

\* Faulty variant: of several highest bids the last one.
best_bid_index_last(t) ==
    CHOOSE i \in 1..Len(t) :
        /\ \A j \in 1..Len(t) : t[j].bid <= t[i].bid
        /\ \A j \in (i + 1)..Len(t) : t[j].bid < t[i].bid

\* max(tickers, key=lambda x: tickers[x]['bid']): the first key, in iteration
\* order, whose bid no other exceeds.
best_bid_index(t) ==
    CHOOSE i \in 1..Len(t) :
        /\ \A j \in 1..Len(t) : t[j].bid <= t[i].bid
        /\ \A j \in 1..(i - 1) : t[j].bid < t[i].bid

\* Faulty variant: max in the place of min.
best_ask_index_highest(t) ==
    CHOOSE i \in 1..Len(t) :
        /\ \A j \in 1..Len(t) : t[j].ask <= t[i].ask
        /\ \A j \in 1..(i - 1) : t[j].ask < t[i].ask

\* min(tickers, key=lambda x: tickers[x]['ask'])
best_ask_index(t) ==
    CHOOSE i \in 1..Len(t) :
        /\ \A j \in 1..Len(t) : t[j].ask >= t[i].ask
        /\ \A j \in 1..(i - 1) : t[j].ask > t[i].ask

\* The net profit simulation of scan_continuously for a ticker map of at
\* least one entry and a notional, every local by its source name.
SimulateAt(t, trade_amount) ==
    LET best_bid_exchange == t[best_bid_index(t)].exchange
        best_ask_exchange == t[best_ask_index(t)].exchange
        best_bid == RInt(t[best_bid_index(t)].bid)
        best_ask == RInt(t[best_ask_index(t)].ask)
        buy_fee == FeeOf(best_ask_exchange)
        sell_fee == FeeOf(best_bid_exchange)
        effective_buy_price == RMul(best_ask, RAdd(RInt(1), buy_fee))
        crypto_units_bought == RDiv(RInt(trade_amount), effective_buy_price)
        total_buy_cost == RMul(crypto_units_bought, effective_buy_price)
        buy_fee_amount == RMul(RMul(crypto_units_bought, best_ask), buy_fee)
        gross_sell_revenue == RMul(crypto_units_bought, best_bid)
        sell_fee_amount == RMul(gross_sell_revenue, sell_fee)
        net_sell_revenue == RSub(gross_sell_revenue, sell_fee_amount)
        net_profit_usd == RSub(net_sell_revenue, total_buy_cost)
    IN  [best_bid_exchange |-> best_bid_exchange,
         best_ask_exchange |-> best_ask_exchange,
         best_bid |-> best_bid,
         best_ask |-> best_ask,
         buy_fee |-> buy_fee,
         sell_fee |-> sell_fee,
         effective_buy_price |-> effective_buy_price,
         total_buy_cost |-> total_buy_cost,
         net_sell_revenue |-> net_sell_revenue,
         net_profit_usd |-> net_profit_usd,
         net_profit_percentage |->
             RMul(RDiv(net_profit_usd, RInt(trade_amount)), RInt(100)),
         gross_spread_percentage |->
             RMul(RDiv(RSub(best_bid, best_ask), best_ask), RInt(100)),
         total_fees_usd |-> RAdd(buy_fee_amount, sell_fee_amount)]

\* trade_amount_usd = 10000, then the simulation.
Simulate(t) == SimulateAt(t, trade_amount_usd)

\* The same lines as Python runs them, every operation rounded to the
\* nearest double: the locals that decide, for a ticker map of positive
\* prices.
float_SimulateAt(t, trade_amount) ==
    LET best_bid_exchange == t[best_bid_index(t)].exchange
        best_ask_exchange == t[best_ask_index(t)].exchange
        best_bid == float(t[best_bid_index(t)].bid)
        best_ask == float(t[best_ask_index(t)].ask)
        buy_fee == float_FeeOf(best_ask_exchange)
        sell_fee == float_FeeOf(best_bid_exchange)
        effective_buy_price == float_mul(best_ask, float_add(float(1), buy_fee))
        crypto_units_bought == float_truediv(float(trade_amount), effective_buy_price)
        total_buy_cost == float_mul(crypto_units_bought, effective_buy_price)
        gross_sell_revenue == float_mul(crypto_units_bought, best_bid)
        sell_fee_amount == float_mul(gross_sell_revenue, sell_fee)
        net_sell_revenue == float_sub(gross_sell_revenue, sell_fee_amount)
        net_profit_usd == float_sub(net_sell_revenue, total_buy_cost)
    IN  [trade_amount |-> trade_amount,
         computed |-> TRUE,
         total_buy_cost |-> total_buy_cost,
         net_profit_usd |-> net_profit_usd]

\* required_spread = (buy_fee + sell_fee) * 100, the spread the spread line
\* and the near-miss log display as needed.
required_spread(sim) == RMul(RAdd(sim.buy_fee, sim.sell_fee), RInt(100))

\* spread_deficit = required_spread - gross_spread_percentage
spread_deficit(sim) == RSub(required_spread(sim), sim.gross_spread_percentage)

\* Faulty variant: the skip taken only for an empty ticker map.
Insufficient_empty(t) == Len(t) < 1

\* if len(tickers) < 2: ... continue
Insufficient(t) == Len(t) < 2

\* Faulty variant: the gross spread decides, as in the earlier revisions of the scanner.
Profitable_gross(sim) == RGt(sim.best_bid, sim.best_ask)

\* if net_profit_usd > 0:
Profitable(sim) == RGt(sim.net_profit_usd, RInt(0))

\* -------------------------------------------------------------------- state
VARIABLES
    pc,                  \* where the main coroutine stands
    scan_count,          \* scan_continuously: scans started
    opportunities_found, \* scan_continuously: opportunities detected
    scan_opportunities,  \* scan_continuously: opportunities of this scan
    idx,                 \* position of base_currency in the for loop
    tasks,               \* the coroutines handed to asyncio.gather
    tickers,             \* the ticker map of this base currency, in insertion order
    status,              \* what the loop body printed for this base currency
    assets_done,         \* base currencies whose loop body has ended this scan
    sink,                \* the records handed to save_opportunity_to_file
    save_error,          \* save_opportunity_to_file has logged a failed write
    log_file_handle,     \* _log_file_handle: "open" or "None"
    summary,             \* the final stats printed by the except block
    interrupted_at,      \* the pc at which a cancellation was delivered
    selected,            \* best_bid_exchange and best_ask_exchange of this base currency
    return_value,        \* what scan_for_arbitrage handed to its caller
    exchange_idx,        \* fetch_market_data: position of exchange_name in EXCHANGES
    symbol_idx,          \* fetch_market_data: position of symbol in symbols_to_fetch
    new_market_data_points, \* fetch_market_data: the MarketData rows built so far
    session,             \* the database session: the table, add_all and commit calls
    fetch_ohlcv_calls,   \* the calls of exchange.fetch_ohlcv and the candles each returned
    simulation,          \* the simulation run on its own: the notional and the doubles computed
    scheduler            \* scheduler.py: the jobs of `schedule` and what the wrappers logged

feed_vars ==
    << exchange_idx, symbol_idx, new_market_data_points, session, fetch_ohlcv_calls >>

vars ==
    << pc, scan_count, opportunities_found, scan_opportunities, idx, tasks,
       tickers, status, assets_done, sink, save_error, log_file_handle, summary,
       interrupted_at, selected, return_value, exchange_idx, symbol_idx,
       new_market_data_points, session, fetch_ohlcv_calls, configuration,
       simulation, scheduler >>

\* The locals best_bid_exchange and best_ask_exchange of the for body, as
\* one record; no exchange is selected before the first assignment.
Selection(b, a) == [best_bid_exchange |-> b, best_ask_exchange |-> a]

NoSelection == Selection("none", "none")

Selected(sim) == Selection(sim.best_bid_exchange, sim.best_ask_exchange)

\* A Python value handed back by a coroutine: not yet returned, None, or a
\* list of items.
PyValue(k, xs) == [kind |-> k, items |-> xs]

Pending == PyValue("pending", << >>)

PyNone == PyValue("None", << >>)

\* -------------------------------------------------------- fetch_market_data
\* TRADING_PAIRS, the list used for an exchange without a list of its own.
TRADING_PAIRS ==
    << Pair("BTC", "USDT:USDT"), Pair("ETH", "USDT:USDT"), Pair("SOL", "USDT:USDT"),
       Pair("XRP", "USDT:USDT"), Pair("ADA", "USDT:USDT"), Pair("DOT", "USDT:USDT"),
       Pair("UNI", "USDT:USDT"), Pair("AAVE", "USDT:USDT"), Pair("LINK", "USDT:USDT"),
       Pair("XLM", "USDT:USDT"),
       Pair("BTC", "USD"), Pair("ETH", "USD"), Pair("SOL", "USD"), Pair("XRP", "USD"),
       Pair("ADA", "USD"), Pair("DOT", "USD"), Pair("UNI", "USD"), Pair("AAVE", "USD"),
       Pair("LINK", "USD"), Pair("XLM", "USD"), Pair("SHIB", "USD"),
       Pair("SHIB", "USDT") >>

\* symbols_to_fetch = EXCHANGE_TRADING_PAIRS.get(exchange_name, TRADING_PAIRS);
\* the model fetches the last NumAssets symbols of the list.
symbols_to_fetch(exchange_name) ==
    LET all == IF exchange_name \in DOMAIN EXCHANGE_TRADING_PAIRS
               THEN EXCHANGE_TRADING_PAIRS[exchange_name]
               ELSE TRADING_PAIRS
    IN  SubSeq(all, Len(all) - NumAssets + 1, Len(all))

\* A datetime is its count of microseconds.
\* datetime.datetime.fromtimestamp(c[0] / 1000) for a candle time c[0] in
\* milliseconds:
fromtimestamp(ms) == [us |-> ms * 1000]

\* int(dt.timestamp() * 1000): the datetime in milliseconds, truncated.
timestamp_ms(dt) == dt.us \div 1000

\* A row of the table market_data, by the columns of its unique constraint.
MarketData(exchange_name, symbol, timestamp) ==
    [exchange |-> exchange_name, symbol |-> symbol, timestamp |-> timestamp]

\* The opening times, in milliseconds, of the 1m candles an exchange has.
CandleTimes == << 60000, 120000, 180000 >>

\* The (exchange, symbol) pairs a run goes through.
FeedPairs ==
    { << EXCHANGES[e], symbols_to_fetch(EXCHANGES[e])[k] >> :
        e \in 1..Len(EXCHANGES), k \in 1..NumAssets }

\* The table with the first `upto[p]` candles of every pair p.
TableOf(upto) ==
    UNION { { MarketData(p[1], p[2], fromtimestamp(CandleTimes[k])) : k \in 1..upto[p] } :
            p \in FeedPairs }

EmptyTable == TableOf([p \in FeedPairs |-> 0])

\* The tables a run may find: empty; one candle for every pair; two candles
\* for the pairs of the first exchange only; one candle for SHIB pairs and
\* two for the others.
InitialTables ==
    { EmptyTable,
      TableOf([p \in FeedPairs |-> 1]),
      TableOf([p \in FeedPairs |-> IF p[1] = EXCHANGES[1] THEN 2 ELSE 0]),
      TableOf([p \in FeedPairs |-> IF p[2].base = "SHIB" THEN 1 ELSE 2]) }

\* The session of get_session(): the table it reads, the objects handed to
\* add_all and not yet committed, and the calls it has received.
Session(table) ==
    [table |-> table, pending |-> << >>, add_all_calls |-> 0, commit_calls |-> 0]

\* session.add_all(objects)
add_all(s, objects) ==
    [s EXCEPT !.pending = @ \o objects, !.add_all_calls = @ + 1]

\* session.commit(): the pending objects become rows of the table.
commit(s) ==
    [s EXCEPT !.table = @ \cup { s.pending[i] : i \in 1..Len(s.pending) },
              !.pending = << >>,
              !.commit_calls = @ + 1]

\* Faulty variant: the latest row of the exchange, whatever its symbol.
latest_record_any_symbol(s, exchange_name, symbol) ==
    LET rows == { r \in s.table : r.exchange = exchange_name }
    IN  IF rows = {} THEN << >>
        ELSE << CHOOSE r \in rows : \A q \in rows : q.timestamp.us <= r.timestamp.us >>

\* session.query(MarketData.timestamp).filter_by(exchange=..., symbol=...)
\*     .order_by(MarketData.timestamp.desc()).first()
\* as a sequence: empty for None, else the one row found.
latest_record(s, exchange_name, symbol) ==
    LET rows == { r \in s.table : r.exchange = exchange_name /\ r.symbol = symbol }
    IN  IF rows = {} THEN << >>
        ELSE << CHOOSE r \in rows : \A q \in rows : q.timestamp.us <= r.timestamp.us >>

\* The argument `since` of fetch_ohlcv: None, or a time in milliseconds.
Since(is_none, ms) == [none |-> is_none, ms |-> ms]

\* since = None; if latest_record: since = int(...timestamp() * 1000) + 1
since_of(latest) ==
    IF latest = << >> THEN Since(TRUE, 0)
    ELSE Since(FALSE, timestamp_ms(latest[1].timestamp) + 1)

\* What exchange.fetch_ohlcv(symbol, '1m', since=since) can do: return the
\* first candles from `since` on (none, one or two of them), raise a
\* ccxt.BaseError, or raise an exception of another type.
Ohlcv(k, cs) == [kind |-> k, candles |-> cs]

Answers(since) ==
    LET from == SelectSeq(CandleTimes, LAMBDA t : since.none \/ t >= since.ms)
    IN  { Ohlcv("ohlcv", SubSeq(from, 1, k)) : k \in 0..Min(Len(from), 2) }
        \cup { Ohlcv("BaseError", << >>), Ohlcv("OtherError", << >>) }

\* Faulty variant: only the first candle of an answer is kept.
RowsOf_first(exchange_name, symbol, ohlcv) ==
    [i \in 1..Min(Len(ohlcv), 1) |->
        MarketData(exchange_name, symbol, fromtimestamp(ohlcv[i]))]

\* for c in ohlcv: new_market_data_points.append(MarketData(...))
RowsOf(exchange_name, symbol, ohlcv) ==
    [i \in 1..Len(ohlcv) |->
        MarketData(exchange_name, symbol, fromtimestamp(ohlcv[i]))]

\* ------------------------------------------------------------ scheduler.py
\* The jobs of `schedule`, in the order lines 40 and 43 register them.
Jobs == << "run_feed_job", "run_scan_job" >>

\* schedule.every(1).minutes.do(run_feed_job) and
\* schedule.every(15).seconds.do(run_scan_job): the interval in seconds.
interval(job) == IF job = "run_feed_job" THEN 1 * 60 ELSE 15

\* The seconds a run of a job may take.
JobDurations == {0, 20}

\* The scheduler is not running: main.py has started one entry point alone.
NoScheduler ==
    [next_run |-> [j \in {} |-> 0], runnable |-> << >>, running |-> "none",
     error_logged |-> {}, failed |-> FALSE, since_failure |-> {}]

\* No simulation has been run on its own.
NoSimulation ==
    [trade_amount |-> 0, computed |-> FALSE,
     total_buy_cost |-> FloatZero, net_profit_usd |-> FloatZero]

\* main() runs one of its entry points.  scan_continuously is taken up at
\* its `try:`, counters at 0 and the log file opened by start_logging;
\* scan_for_arbitrage at its for loop, where the module's _log_file_handle
\* is still None; fetch_market_data at its loop over EXCHANGES, with the
\* table as earlier runs have left it and the shipped configuration.
Init ==
    /\ \/ /\ pc = "cycle_start"
          /\ log_file_handle = "open"
          /\ session = Session(EmptyTable)
          /\ configuration \in DOMAIN Configurations
       \/ /\ pc = "sfa_collect"
          /\ log_file_handle = "None"
          /\ session = Session(EmptyTable)
          /\ configuration \in DOMAIN Configurations
       \/ /\ pc = "feed_exchange"
          /\ log_file_handle = "None"
          /\ session \in { Session(t) : t \in InitialTables }
          /\ configuration = "shipped"
    /\ scan_count = 0
    /\ opportunities_found = 0
    /\ scan_opportunities = 0
    /\ idx = 1
    /\ tasks = << >>
    /\ tickers = << >>
    /\ status = "none"
    /\ assets_done = 0
    /\ sink = << >>
    /\ save_error = FALSE
    /\ summary = [printed |-> FALSE, total_scans |-> 0, opportunities_found |-> 0]
    /\ interrupted_at = "none"
    /\ selected = NoSelection
    /\ return_value = Pending
    /\ exchange_idx = 1
    /\ symbol_idx = 1
    /\ new_market_data_points = << >>
    /\ fetch_ohlcv_calls = << >>
    /\ simulation = NoSimulation
    /\ scheduler = NoScheduler

\* ------------------------------------------------ fetch_ticker_for_exchange
\* finally: if exchange: await exchange.close()
exchange_close(client) == IF client # "none" THEN "closed" ELSE client

\* Faulty variant: the SHIB test written against the perpetual symbol.
defaultType_perpetual_literal(exchange_name, symbol) ==
    IF exchange_name = "bybit"
    THEN IF symbol = Pair("SHIB", "USDT:USDT") THEN "spot" ELSE "future"
    ELSE "none"

\* exchange_config['options'] = {'defaultType': ...}: for bybit spot when the
\* symbol is 'SHIB/USDT' and future otherwise; no options key ("none") for
\* any other exchange.
defaultType(exchange_name, symbol) ==
    IF exchange_name = "bybit"
    THEN IF symbol = Pair("SHIB", "USDT") THEN "spot" ELSE "future"
    ELSE "none"

\* The rank of the next task of the list to end.
NextRank(ts) == 1 + Cardinality({ i \in 1..Len(ts) : ts[i].finished > 0 })

\* A task runs up to its first await: exchange_config is filled in, with the
\* market type of the exchange and symbol.  The constructor of the client may
\* raise (the except clause returns None, `exchange` is still None); a
\* client without fetchTicker returns None and is closed by the finally
\* block; otherwise fetch_ticker is awaited with the client open.
TaskStart(i) ==
    /\ pc \in {"gather", "sfa_gather"}
    /\ tasks[i].st = "created"
    /\ \E constructed, has_fetchTicker \in BOOLEAN :
           LET configured ==
                   [tasks[i] EXCEPT !.defaultType =
                                        defaultType(tasks[i].exchange, tasks[i].symbol)]
           IN  tasks' = [tasks EXCEPT ![i] =
                        IF ~constructed
                        THEN [configured EXCEPT !.st = "done", !.result = None,
                                       !.client = exchange_close("none"),
                                       !.finished = NextRank(tasks)]
                        ELSE IF has_fetchTicker
                        THEN [configured EXCEPT !.st = "fetching", !.client = "open"]
                        ELSE [configured EXCEPT !.st = "done", !.result = None,
                                       !.client = exchange_close("open"),
                                       !.finished = NextRank(tasks)]]
    /\ UNCHANGED << assets_done, pc, scan_count, opportunities_found, scan_opportunities,
                    idx, tickers, status, sink, save_error, log_file_handle,
                    summary, interrupted_at,
                    selected, return_value >>
    /\ UNCHANGED feed_vars
    /\ UNCHANGED << configuration, simulation, scheduler >>

\* Faulty variant: the counter of opportunities kept in a module-level
\* variable that the fetch coroutine bumps for every usable ticker.
TaskFinish_counting(i) ==
    /\ pc \in {"gather", "sfa_gather"}
    /\ tasks[i].st = "fetching"
    /\ \E r \in Responses :
           /\ tasks' = [tasks EXCEPT ![i] =
                           [@ EXCEPT !.st = "done", !.result = TickerResult(r),
                                     !.client = exchange_close(@),
                                     !.finished = NextRank(tasks)]]
           /\ opportunities_found' =
                  IF TickerResult(r).kind = "tuple" /\ opportunities_found < MaxScans * NumAssets
                  THEN opportunities_found + 1 ELSE opportunities_found
    /\ UNCHANGED << assets_done, pc, scan_count, scan_opportunities,
                    idx, tickers, status, sink, save_error, log_file_handle,
                    summary, interrupted_at,
                    selected, return_value >>
    /\ UNCHANGED feed_vars
    /\ UNCHANGED << configuration, simulation, scheduler >>

\* fetch_ticker answers; the task computes its result, closes the client in
\* the finally block and ends.
TaskFinish(i) ==
    /\ pc \in {"gather", "sfa_gather"}
    /\ tasks[i].st = "fetching"
    /\ \E r \in Responses :
           tasks' = [tasks EXCEPT ![i] =
                        [@ EXCEPT !.st = "done", !.result = TickerResult(r),
                                  !.client = exchange_close(@),
                                  !.finished = NextRank(tasks)]]
    /\ UNCHANGED << assets_done, pc, scan_count, opportunities_found, scan_opportunities,
                    idx, tickers, status, sink, save_error, log_file_handle,
                    summary, interrupted_at,
                    selected, return_value >>
    /\ UNCHANGED feed_vars
    /\ UNCHANGED << configuration, simulation, scheduler >>

\* The cancellation of a task that has not ended: CancelledError is raised
\* at its await, the finally block closes the client, the task is done.
Cancel(t) ==
    [t EXCEPT !.st = "done", !.result = Result("cancelled", 0, 0),
              !.client = exchange_close(@)]

\* The tasks still running when the main coroutine ends on a cancellation:
\* they are cancelled with it (by gather, or by asyncio.run on its way out).
CancelRest(ts) ==
    LET rest == SelectSeq(ts, LAMBDA t : t.st # "done")
    IN  [i \in 1..Len(rest) |-> Cancel(rest[i])]

\* After the exception of one task has ended the main coroutine, asyncio.run
\* cancels the tasks that gather left running.
TaskCancel(i) ==
    /\ pc \in {"crashed", "sfa_crashed"}
    /\ tasks[i].st # "done"
    /\ tasks' = [tasks EXCEPT ![i] = Cancel(@)]
    /\ UNCHANGED << assets_done, pc, scan_count, opportunities_found, scan_opportunities,
                    idx, tickers, status, sink, save_error, log_file_handle,
                    summary, interrupted_at,
                    selected, return_value >>
    /\ UNCHANGED feed_vars
    /\ UNCHANGED << configuration, simulation, scheduler >>

\* --------------------------------------------------------- scan_continuously
\* Faulty variant: the session's counter reset with the scan's.
CycleStart_resets ==
    /\ pc = "cycle_start"
    /\ scan_count < MaxScans
    /\ scan_count' = scan_count + 1
    /\ scan_opportunities' = 0
    /\ opportunities_found' = 0
    /\ idx' = 1
    /\ assets_done' = 0
    /\ pc' = "collect"
    /\ UNCHANGED << tasks, tickers, status, sink,
                    save_error, log_file_handle, summary, interrupted_at,
                    selected, return_value >>
    /\ UNCHANGED feed_vars
    /\ UNCHANGED << configuration, simulation, scheduler >>

\* while True: scan_count += 1; the scan header; scan_opportunities = 0.
CycleStart ==
    /\ pc = "cycle_start"
    /\ scan_count < MaxScans
    /\ scan_count' = scan_count + 1
    /\ scan_opportunities' = 0
    /\ idx' = 1
    /\ assets_done' = 0
    /\ pc' = "collect"
    /\ UNCHANGED << opportunities_found, tasks, tickers, status, sink,
                    save_error, log_file_handle, summary, interrupted_at,
                    selected, return_value >>
    /\ UNCHANGED feed_vars
    /\ UNCHANGED << configuration, simulation, scheduler >>

\* The task list of this base currency is built and handed to gather.  The
\* ticker map and the selection of the base currency before are not read
\* again and are dropped.
Collect ==
    /\ pc = "collect"
    /\ tasks' = CreateTasks(BaseCurrencies[idx])
    /\ status' = "none"
    /\ selected' = NoSelection
    /\ tickers' = << >>
    /\ pc' = "gather"
    /\ UNCHANGED << assets_done, scan_count, opportunities_found, scan_opportunities, idx,
                    sink, save_error, log_file_handle, summary, interrupted_at,
                    return_value >>
    /\ UNCHANGED feed_vars
    /\ UNCHANGED << configuration, simulation, scheduler >>

\* Faulty variant: gather resumed as soon as one task has ended.
AllDone_first(ts) == \E i \in 1..Len(ts) : ts[i].st = "done"

\* await asyncio.gather(*tasks): the awaiting coroutine is resumed with the
\* results when every task of the list has ended.
AllDone(ts) == \A i \in 1..Len(ts) : ts[i].st = "done"

\* One of the tasks has ended by raising.
SomeRaised(ts) == \E i \in 1..Len(ts) : ts[i].st = "done" /\ ts[i].result.kind = "raised"

\* results = await asyncio.gather(*tasks) returns once every task has ended
\* and none has raised; the ticker map is built from the results.
GatherReturn ==
    /\ pc = "gather"
    /\ AllDone(tasks)
    /\ ~SomeRaised(tasks)
    /\ tickers' = BuildTickers(tasks)
    /\ pc' = "evaluate"
    /\ UNCHANGED << assets_done, tasks, scan_count, opportunities_found, scan_opportunities, idx,
                    status, sink, save_error, log_file_handle, summary,
                    interrupted_at,
                    selected, return_value >>
    /\ UNCHANGED feed_vars
    /\ UNCHANGED << configuration, simulation, scheduler >>

\* gather hands the first exception of a task to the awaiting coroutine at
\* once; the other tasks are left running.  No except clause of
\* scan_continuously takes it, so it leaves the coroutine.
GatherRaise ==
    /\ pc = "gather"
    /\ SomeRaised(tasks)
    /\ pc' = "crashed"
    /\ UNCHANGED << assets_done, scan_count, opportunities_found, scan_opportunities, idx,
                    tasks, tickers, status, sink, save_error, log_file_handle,
                    summary, interrupted_at,
                    selected, return_value >>
    /\ UNCHANGED feed_vars
    /\ UNCHANGED << configuration, simulation, scheduler >>

\* Faulty variant: the for loop left after its first base currency.
NextPc_break == "cycle_end"

\* The end of the for body: the next base currency, or the scan summary.
NextPc == IF idx < NumAssets THEN "collect" ELSE "cycle_end"

NextIdx == IF idx < NumAssets THEN idx + 1 ELSE idx

\* The sign of a rational: 1, 0 or -1.
Sign(x) == IF x.n > 0 THEN 1 ELSE IF x.n < 0 THEN -1 ELSE 0

\* Faulty variant: the record numbered with the session's detections in the
\* place of the scan.
OpportunityData_numbered_by_detection(sim) ==
    [scan_number |-> opportunities_found + 1,
     base_currency |-> BaseCurrencies[idx],
     net_profit_sign |-> Sign(sim.net_profit_usd)]

\* opportunity_data, projected on the fields that identify the record and
\* on the sign of its net_profit_usd.
OpportunityData(sim) ==
    [scan_number |-> scan_count,
     base_currency |-> BaseCurrencies[idx],
     net_profit_sign |-> Sign(sim.net_profit_usd)]

\* Faulty variant: the record written twice.
save_opportunity_to_file_twice(handed, opportunity_data, written) ==
    [handed |-> Append(Append(handed, opportunity_data), opportunity_data),
     error_logged |-> ~written,
     raised |-> FALSE]

\* Faulty variant: no except clause, a failed write raises.
save_opportunity_to_file_raises(handed, opportunity_data, written) ==
    [handed |-> Append(handed, opportunity_data),
     error_logged |-> FALSE,
     raised |-> ~written]

\* save_opportunity_to_file(opportunity_data), given the records handed to it
\* so far and whether the write goes through: the record is handed over, a
\* failed write is logged by the except clause and nothing is raised.
save_opportunity_to_file(handed, opportunity_data, written) ==
    [handed |-> Append(handed, opportunity_data),
     error_logged |-> ~written,
     raised |-> FALSE]

\* The tasks of the gathered list that have not ended.
Unfinished(ts) == SelectSeq(ts, LAMBDA t : t.st # "done")

\* From the ticker map to the end of the for body: skip on fewer than two
\* tickers; on a profitable simulation count it, save it and display it;
\* print the spread line otherwise.
Evaluate ==
    /\ pc = "evaluate"
    /\ IF Insufficient(tickers)
       THEN /\ status' = "insufficient"
            /\ pc' = NextPc
            /\ UNCHANGED << scan_opportunities, opportunities_found, sink, save_error >>
       ELSE IF Profitable(Simulate(tickers))
       THEN \E written \in BOOLEAN :
              LET saved == save_opportunity_to_file(
                               sink, OpportunityData(Simulate(tickers)), written)
              IN  /\ scan_opportunities' = scan_opportunities + 1
                  /\ opportunities_found' = opportunities_found + 1
                  /\ sink' = saved.handed
                  /\ save_error' = (save_error \/ saved.error_logged)
                  /\ status' = IF saved.raised THEN status ELSE "opportunity"
                  /\ pc' = IF saved.raised THEN "crashed" ELSE NextPc
       ELSE /\ status' = "no_opportunity"
            /\ pc' = NextPc
            /\ UNCHANGED << scan_opportunities, opportunities_found, sink, save_error >>
    /\ selected' = IF Insufficient(tickers) THEN selected
                   ELSE Selected(Simulate(tickers))
    /\ idx' = IF pc' = "crashed" THEN idx ELSE NextIdx
    /\ assets_done' = IF pc' = "crashed" THEN assets_done ELSE assets_done + 1
    /\ tasks' = Unfinished(tasks)
    /\ UNCHANGED << tickers, scan_count, log_file_handle, summary, interrupted_at,
                    return_value >>
    /\ UNCHANGED feed_vars
    /\ UNCHANGED << configuration, simulation, scheduler >>

\* The scan summary lines; then await asyncio.sleep(scan_interval).
CycleEnd ==
    /\ pc = "cycle_end"
    /\ pc' = "sleep"
    /\ UNCHANGED << assets_done, scan_count, opportunities_found, scan_opportunities, idx,
                    tasks, tickers, status, sink, save_error, log_file_handle,
                    summary, interrupted_at,
                    selected, return_value >>
    /\ UNCHANGED feed_vars
    /\ UNCHANGED << configuration, simulation, scheduler >>

\* The sleep ends and the while loop comes round.
Wake ==
    /\ pc = "sleep"
    /\ pc' = "cycle_start"
    /\ UNCHANGED << assets_done, scan_count, opportunities_found, scan_opportunities, idx,
                    tasks, tickers, status, sink, save_error, log_file_handle,
                    summary, interrupted_at,
                    selected, return_value >>
    /\ UNCHANGED feed_vars
    /\ UNCHANGED << configuration, simulation, scheduler >>

\* The places inside the try block.
InTry == {"cycle_start", "collect", "gather", "evaluate", "cycle_end", "sleep"}

\* The places where the coroutine is suspended in an await.
Awaiting == {"gather", "sleep"}

\* A KeyboardInterrupt raised inside the try block: the except block prints
\* the final stats and calls stop_logging, which closes an open log file.
KeyboardInterrupt ==
    /\ pc \in InTry
    /\ summary' = [printed |-> TRUE, total_scans |-> scan_count,
                   opportunities_found |-> opportunities_found]
    /\ log_file_handle' = "None"
    /\ interrupted_at' = pc
    /\ pc' = "stopped"
    /\ tasks' = CancelRest(tasks)
    /\ UNCHANGED << assets_done, scan_count, opportunities_found,
                    scan_opportunities, idx, tickers, status, sink, save_error,
                    selected, return_value >>
    /\ UNCHANGED feed_vars
    /\ UNCHANGED << configuration, simulation, scheduler >>

\* The cancellation of the task that runs the coroutine (what asyncio.run
\* does on SIGINT) raises asyncio.CancelledError at the await; it is not a
\* KeyboardInterrupt, so the except block does not run.
CancelledError ==
    /\ pc \in Awaiting
    /\ interrupted_at' = pc
    /\ pc' = "cancelled"
    /\ tasks' = CancelRest(tasks)
    /\ UNCHANGED << assets_done, scan_count, opportunities_found,
                    scan_opportunities, idx, tickers, status, sink, save_error,
                    log_file_handle, summary,
                    selected, return_value >>
    /\ UNCHANGED feed_vars
    /\ UNCHANGED << configuration, simulation, scheduler >>

\* --------------------------------------------------------- scan_for_arbitrage
\* The one-shot pass has its own copy of the collection and of the
\* simulation; the operators below are translated from that copy.
sfa_CreateTasks(base_currency) == TasksFrom(1, base_currency)

RECURSIVE sfa_BuildTickers(_)
sfa_BuildTickers(results) ==
    IF results = << >> THEN << >>
    ELSE LET r == Head(results)
         IN  IF r.result.kind = "tuple"
             THEN << [exchange |-> r.exchange, bid |-> r.result.bid,
                      ask |-> r.result.ask] >> \o sfa_BuildTickers(Tail(results))
             ELSE sfa_BuildTickers(Tail(results))

sfa_best_bid_index(t) ==
    CHOOSE i \in 1..Len(t) :
        /\ \A j \in 1..Len(t) : t[j].bid <= t[i].bid
        /\ \A j \in 1..(i - 1) : t[j].bid < t[i].bid

sfa_best_ask_index(t) ==
    CHOOSE i \in 1..Len(t) :
        /\ \A j \in 1..Len(t) : t[j].ask >= t[i].ask
        /\ \A j \in 1..(i - 1) : t[j].ask > t[i].ask

sfa_Simulate(t) ==
    LET best_bid_exchange == t[sfa_best_bid_index(t)].exchange
        best_ask_exchange == t[sfa_best_ask_index(t)].exchange
        best_bid == RInt(t[sfa_best_bid_index(t)].bid)
        best_ask == RInt(t[sfa_best_ask_index(t)].ask)
        buy_fee == FeeOf(best_ask_exchange)
        sell_fee == FeeOf(best_bid_exchange)
        effective_buy_price == RMul(best_ask, RAdd(RInt(1), buy_fee))
        crypto_units_bought == RDiv(RInt(trade_amount_usd), effective_buy_price)
        total_buy_cost == RMul(crypto_units_bought, effective_buy_price)
        buy_fee_amount == RMul(RMul(crypto_units_bought, best_ask), buy_fee)
        gross_sell_revenue == RMul(crypto_units_bought, best_bid)
        sell_fee_amount == RMul(gross_sell_revenue, sell_fee)
        net_sell_revenue == RSub(gross_sell_revenue, sell_fee_amount)
        net_profit_usd == RSub(net_sell_revenue, total_buy_cost)
    IN  [best_bid_exchange |-> best_bid_exchange,
         best_ask_exchange |-> best_ask_exchange,
         best_bid |-> best_bid,
         best_ask |-> best_ask,
         buy_fee |-> buy_fee,
         sell_fee |-> sell_fee,
         effective_buy_price |-> effective_buy_price,
         total_buy_cost |-> total_buy_cost,
         net_sell_revenue |-> net_sell_revenue,
         net_profit_usd |-> net_profit_usd,
         net_profit_percentage |->
             RMul(RDiv(net_profit_usd, RInt(trade_amount_usd)), RInt(100)),
         gross_spread_percentage |->
             RMul(RDiv(RSub(best_bid, best_ask), best_ask), RInt(100)),
         total_fees_usd |-> RAdd(buy_fee_amount, sell_fee_amount)]

\* if len(tickers) < 2: ... continue
sfa_Insufficient(t) == Len(t) < 2

\* Faulty variant: the one-shot pass left deciding on the gross spread.
sfa_Profitable_gross(sim) == RGt(sim.best_bid, sim.best_ask)

\* if net_profit_usd > 0:
sfa_Profitable(sim) == RGt(sim.net_profit_usd, RInt(0))

\* The end of the for body of the one-shot pass: the next base currency, or
\* the end of the function.
sfa_NextPc == IF idx < NumAssets THEN "sfa_collect" ELSE "sfa_returned"

sfa_Collect ==
    /\ pc = "sfa_collect"
    /\ tasks' = sfa_CreateTasks(BaseCurrencies[idx])
    /\ status' = "none"
    /\ selected' = NoSelection
    /\ tickers' = << >>
    /\ pc' = "sfa_gather"
    /\ UNCHANGED << assets_done, scan_count, opportunities_found, scan_opportunities, idx,
                    sink, save_error, log_file_handle, summary, interrupted_at,
                    return_value >>
    /\ UNCHANGED feed_vars
    /\ UNCHANGED << configuration, simulation, scheduler >>

sfa_GatherReturn ==
    /\ pc = "sfa_gather"
    /\ AllDone(tasks)
    /\ ~SomeRaised(tasks)
    /\ tickers' = sfa_BuildTickers(tasks)
    /\ pc' = "sfa_evaluate"
    /\ UNCHANGED << assets_done, tasks, scan_count, opportunities_found, scan_opportunities, idx,
                    status, sink, save_error, log_file_handle, summary,
                    interrupted_at,
                    selected, return_value >>
    /\ UNCHANGED feed_vars
    /\ UNCHANGED << configuration, simulation, scheduler >>

\* scan_for_arbitrage has no try block: the exception of a task leaves it.
sfa_GatherRaise ==
    /\ pc = "sfa_gather"
    /\ SomeRaised(tasks)
    /\ pc' = "sfa_crashed"
    /\ UNCHANGED << assets_done, scan_count, opportunities_found, scan_opportunities, idx,
                    tasks, tickers, status, sink, save_error, log_file_handle,
                    summary, interrupted_at,
                    selected, return_value >>
    /\ UNCHANGED feed_vars
    /\ UNCHANGED << configuration, simulation, scheduler >>

\* Faulty variant: the one-shot pass saving what it detects, as the loop of
\* scan_continuously does.
sfa_Evaluate_saving ==
    /\ pc = "sfa_evaluate"
    /\ status' = IF sfa_Insufficient(tickers) THEN "insufficient"
                 ELSE IF sfa_Profitable(sfa_Simulate(tickers)) THEN "opportunity"
                 ELSE "no_opportunity"
    /\ selected' = IF sfa_Insufficient(tickers) THEN selected
                   ELSE Selected(sfa_Simulate(tickers))
    /\ sink' = IF status' = "opportunity"
               THEN Append(sink, OpportunityData(sfa_Simulate(tickers)))
               ELSE sink
    /\ pc' = sfa_NextPc
    /\ return_value' = IF sfa_NextPc = "sfa_returned" THEN PyNone ELSE return_value
    /\ idx' = NextIdx
    /\ assets_done' = assets_done + 1
    /\ tasks' = Unfinished(tasks)
    /\ UNCHANGED << tickers, scan_count, opportunities_found, scan_opportunities,
                    save_error, log_file_handle, summary, interrupted_at >>
    /\ UNCHANGED feed_vars
    /\ UNCHANGED << configuration, simulation, scheduler >>

\* The decision of the one-shot pass: the warning and `continue`, the
\* printed opportunity banner, or the logged near miss.  After the last
\* base currency the function body ends without a return statement: the
\* caller gets None.
sfa_Evaluate ==
    /\ pc = "sfa_evaluate"
    /\ status' = IF sfa_Insufficient(tickers) THEN "insufficient"
                 ELSE IF sfa_Profitable(sfa_Simulate(tickers)) THEN "opportunity"
                 ELSE "no_opportunity"
    /\ selected' = IF sfa_Insufficient(tickers) THEN selected
                   ELSE Selected(sfa_Simulate(tickers))
    /\ pc' = sfa_NextPc
    /\ return_value' = IF sfa_NextPc = "sfa_returned" THEN PyNone ELSE return_value
    /\ idx' = NextIdx
    /\ assets_done' = assets_done + 1
    /\ tasks' = Unfinished(tasks)
    /\ UNCHANGED << tickers, scan_count, opportunities_found, scan_opportunities,
                    sink, save_error, log_file_handle, summary, interrupted_at >>
    /\ UNCHANGED feed_vars
    /\ UNCHANGED << configuration, simulation, scheduler >>

\* -------------------------------------------------------- fetch_market_data
\* The variables of the scanner, which a run of the feed leaves alone.
scanner_vars ==
    << scan_count, opportunities_found, scan_opportunities, idx, tasks, tickers,
       status, assets_done, sink, save_error, log_file_handle, summary,
       interrupted_at, selected, return_value >>

\* The end of the body of `for exchange_name in EXCHANGES`: the next
\* exchange, or the statements after the loop.
FeedNextExchange ==
    IF exchange_idx < Len(EXCHANGES)
    THEN /\ exchange_idx' = exchange_idx + 1
         /\ pc' = "feed_exchange"
    ELSE /\ exchange_idx' = exchange_idx
         /\ pc' = "feed_store"

\* The client of one exchange is set up: it supports fetchOHLCV, or it does
\* not (`continue`), or its construction raises ccxt.BaseError or
\* AttributeError (logged, `continue`).
FeedExchange ==
    /\ pc = "feed_exchange"
    /\ \E init \in {"ok", "unsupported", "init_error"} :
           IF init = "ok"
           THEN /\ pc' = "feed_symbol"
                /\ UNCHANGED exchange_idx
           ELSE FeedNextExchange
    /\ symbol_idx' = 1
    /\ UNCHANGED << new_market_data_points, session, fetch_ohlcv_calls >>
    /\ UNCHANGED scanner_vars
    /\ UNCHANGED << configuration, simulation, scheduler >>

\* One symbol of one exchange: the latest row is looked up, fetch_ohlcv is
\* called with the `since` derived from it, and the candles it returns are
\* appended to new_market_data_points.  An empty answer and a ccxt.BaseError
\* go on to the next symbol; any other exception leaves fetch_market_data.
FeedSymbol ==
    /\ pc = "feed_symbol"
    /\ LET exchange_name == EXCHANGES[exchange_idx]
           symbol == symbols_to_fetch(exchange_name)[symbol_idx]
           since == since_of(latest_record(session, exchange_name, symbol))
       IN  \E ohlcv \in Answers(since) :
              /\ fetch_ohlcv_calls' =
                     Append(fetch_ohlcv_calls,
                            [exchange |-> exchange_name, symbol |-> symbol,
                             timeframe |-> "1m", since |-> since,
                             returned |-> ohlcv.candles])
              /\ new_market_data_points' =
                     IF ohlcv.kind = "ohlcv"
                     THEN new_market_data_points
                              \o RowsOf(exchange_name, symbol, ohlcv.candles)
                     ELSE new_market_data_points
              /\ IF ohlcv.kind = "OtherError"
                 THEN /\ pc' = "feed_raised"
                      /\ UNCHANGED << exchange_idx, symbol_idx >>
                 ELSE IF symbol_idx < Len(symbols_to_fetch(exchange_name))
                 THEN /\ symbol_idx' = symbol_idx + 1
                      /\ pc' = "feed_symbol"
                      /\ UNCHANGED exchange_idx
                 ELSE /\ symbol_idx' = symbol_idx
                      /\ FeedNextExchange
    /\ UNCHANGED session
    /\ UNCHANGED scanner_vars
    /\ UNCHANGED << configuration, simulation, scheduler >>

\* if new_market_data_points: session.add_all(...); session.commit()
FeedStore ==
    /\ pc = "feed_store"
    /\ session' = IF new_market_data_points # << >>
                  THEN commit(add_all(session, new_market_data_points))
                  ELSE session
    /\ pc' = "feed_done"
    /\ UNCHANGED << exchange_idx, symbol_idx, new_market_data_points, fetch_ohlcv_calls >>
    /\ UNCHANGED scanner_vars
    /\ UNCHANGED << configuration, simulation, scheduler >>

\* ------------------------------------------------------------ scheduler.py
\* The state at `while True`: every(...).do(...) has planned the first run
\* of each job one interval after its registration.  The table holds every
\* candle the exchanges have, as the feed of a long-running scheduler has
\* left it.
SchedulerInit ==
    /\ pc = "run_pending"
    /\ scheduler = [NoScheduler EXCEPT
                       !.next_run = [j \in {Jobs[i] : i \in 1..Len(Jobs)} |-> interval(j)]]
    /\ log_file_handle = "None"
    /\ session = Session(TableOf([p \in FeedPairs |-> Len(CandleTimes)]))
    /\ configuration = "shipped"
    /\ scan_count = 0
    /\ opportunities_found = 0
    /\ scan_opportunities = 0
    /\ idx = 1
    /\ tasks = << >>
    /\ tickers = << >>
    /\ status = "none"
    /\ assets_done = 0
    /\ sink = << >>
    /\ save_error = FALSE
    /\ summary = [printed |-> FALSE, total_scans |-> 0, opportunities_found |-> 0]
    /\ interrupted_at = "none"
    /\ selected = NoSelection
    /\ return_value = Pending
    /\ exchange_idx = 1
    /\ symbol_idx = 1
    /\ new_market_data_points = << >>
    /\ fetch_ohlcv_calls = << >>
    /\ simulation = NoSimulation

\* The variables no step of scheduler.py itself touches.
scheduler_frame ==
    << scan_count, opportunities_found, scan_opportunities, sink, save_error,
       log_file_handle, summary, interrupted_at, configuration, simulation >>

\* The locals of a call of scan_for_arbitrage, as the call finds them and as
\* they are gone when it has ended.
ScanLocals ==
    /\ idx' = 1
    /\ tasks' = << >>
    /\ tickers' = << >>
    /\ status' = "none"
    /\ assets_done' = 0
    /\ selected' = NoSelection
    /\ return_value' = Pending

\* The locals of a call of fetch_market_data, and the session get_session()
\* opens on the table.
FeedLocals ==
    /\ exchange_idx' = 1
    /\ symbol_idx' = 1
    /\ new_market_data_points' = << >>
    /\ fetch_ohlcv_calls' = << >>
    /\ session' = Session(session.table)

\* sorted(job for job in self.jobs if job.should_run): the jobs that are due,
\* the earlier next_run first, jobs of the same next_run in their order in
\* the list.
runnable_jobs(next_run) ==
    LET due == SelectSeq(Jobs, LAMBDA j : next_run[j] <= 0)
    IN  IF Len(due) = 2 /\ next_run[due[2]] < next_run[due[1]]
        THEN << due[2], due[1] >>
        ELSE due

\* schedule.run_pending() is called by the loop and lists the jobs to run.
run_pending ==
    /\ pc = "run_pending"
    /\ scheduler' = [scheduler EXCEPT !.runnable = runnable_jobs(scheduler.next_run)]
    /\ pc' = "run_jobs"
    /\ UNCHANGED << idx, tasks, tickers, status, assets_done, selected, return_value >>
    /\ UNCHANGED feed_vars
    /\ UNCHANGED scheduler_frame

\* run_pending calls run_feed_job, which calls fetch_market_data().
run_feed_job ==
    /\ pc = "run_jobs"
    /\ scheduler.runnable # << >>
    /\ Head(scheduler.runnable) = "run_feed_job"
    /\ scheduler' = [scheduler EXCEPT
                        !.running = "run_feed_job",
                        !.error_logged = @ \ {"run_feed_job"},
                        !.since_failure = IF scheduler.failed
                                          THEN @ \cup {"run_feed_job"} ELSE @]
    /\ FeedLocals
    /\ pc' = "feed_exchange"
    /\ UNCHANGED << idx, tasks, tickers, status, assets_done, selected, return_value >>
    /\ UNCHANGED scheduler_frame

\* run_pending calls run_scan_job, which calls
\* asyncio.run(scan_for_arbitrage()).
run_scan_job ==
    /\ pc = "run_jobs"
    /\ scheduler.runnable # << >>
    /\ Head(scheduler.runnable) = "run_scan_job"
    /\ scheduler' = [scheduler EXCEPT
                        !.running = "run_scan_job",
                        !.error_logged = @ \ {"run_scan_job"},
                        !.since_failure = IF scheduler.failed
                                          THEN @ \cup {"run_scan_job"} ELSE @]
    /\ ScanLocals
    /\ pc' = "sfa_collect"
    /\ UNCHANGED feed_vars
    /\ UNCHANGED scheduler_frame

\* The exception a call has ended with, if any: the one that FeedSymbol or
\* a fetch task of the scan has raised.
raised_by(at) == IF at \in {"feed_raised", "sfa_crashed"} THEN "OtherError" ELSE "none"

\* The classes `except Exception` does not catch.
NotException == {"KeyboardInterrupt", "SystemExit", "GeneratorExit", "CancelledError"}

\* Faulty variant: the wrapper catching the errors of the exchange library
\* only, as the functions it calls do.
except_Exception_ccxt_only(e) ==
    [logged |-> e = "BaseError", propagates |-> e \notin {"none", "BaseError"}]

\* try: ... except Exception as e: logging.error(...): the exception is
\* logged and goes no further, unless it is not an Exception.
except_Exception(e) ==
    [logged |-> e # "none" /\ e \notin NotException,
     propagates |-> e \in NotException]

\* The job has been run at last_run = now: _schedule_next_run() plans it one
\* interval later; the d seconds the run took have passed for the others.
schedule_next_run(next_run, job, d) ==
    [j \in DOMAIN next_run |-> IF j = job THEN interval(j) ELSE next_run[j] - d]

\* The end of a wrapper (lines 22-24 and 31-33) and of the job's run: the
\* error is logged if the call has raised, "job finished" is logged, and
\* run_pending plans the next run of the job and goes on with its list.  An
\* exception the wrapper lets through leaves run_pending and the loop.
JobEnd(job) ==
    LET wrapper == except_Exception(raised_by(pc))
    IN  \E d \in JobDurations :
           IF wrapper.propagates
           THEN /\ pc' = "scheduler_raised"
                /\ scheduler' = [scheduler EXCEPT !.running = "none", !.failed = TRUE,
                                                 !.since_failure = {}]
           ELSE /\ pc' = "run_jobs"
                /\ scheduler' =
                       [scheduler EXCEPT
                           !.running = "none",
                           !.runnable = Tail(@),
                           !.next_run = schedule_next_run(@, job, d),
                           !.error_logged = IF wrapper.logged THEN @ \cup {job} ELSE @,
                           !.failed = @ \/ raised_by(pc) # "none",
                           !.since_failure = IF raised_by(pc) # "none" THEN {} ELSE @]

\* fetch_market_data() has ended, by its end or by an exception.
run_feed_job_end ==
    /\ pc \in {"feed_done", "feed_raised"}
    /\ scheduler.running = "run_feed_job"
    /\ JobEnd("run_feed_job")
    /\ FeedLocals
    /\ UNCHANGED << idx, tasks, tickers, status, assets_done, selected, return_value >>
    /\ UNCHANGED scheduler_frame

\* asyncio.run(scan_for_arbitrage()) has ended, the tasks the coroutine left
\* behind cancelled, by the return of the coroutine or by its exception.
run_scan_job_end ==
    /\ pc \in {"sfa_returned", "sfa_crashed"}
    /\ scheduler.running = "run_scan_job"
    /\ Unfinished(tasks) = << >>
    /\ JobEnd("run_scan_job")
    /\ ScanLocals
    /\ UNCHANGED feed_vars
    /\ UNCHANGED scheduler_frame

\* run_pending has run the jobs of its list and returns to the loop.
run_pending_return ==
    /\ pc = "run_jobs"
    /\ scheduler.runnable = << >>
    /\ pc' = "sleep"
    /\ UNCHANGED scheduler
    /\ UNCHANGED << idx, tasks, tickers, status, assets_done, selected, return_value >>
    /\ UNCHANGED feed_vars
    /\ UNCHANGED scheduler_frame

\* The seconds until the first of the jobs is due.
idle_seconds(next_run) ==
    LET first == CHOOSE j \in DOMAIN next_run : \A k \in DOMAIN next_run : next_run[j] <= next_run[k]
    IN  IF next_run[first] > 1 THEN next_run[first] ELSE 1

\* time.sleep(1), and the loop calls run_pending again: one second passes.
\* The iterations in which run_pending finds no job due change nothing but
\* the time, and are taken in one step with the sleep that ends them.
sleep ==
    /\ pc = "sleep"
    /\ scheduler' = [scheduler EXCEPT
                        !.next_run = [j \in DOMAIN @ |-> @[j] - idle_seconds(scheduler.next_run)]]
    /\ pc' = "run_pending"
    /\ UNCHANGED << idx, tasks, tickers, status, assets_done, selected, return_value >>
    /\ UNCHANGED feed_vars
    /\ UNCHANGED scheduler_frame

\* The steps of scheduler.py and of the two functions its jobs call.
SchedulerNext ==
    \/ run_pending
    \/ run_feed_job
    \/ run_feed_job_end
    \/ run_scan_job
    \/ run_scan_job_end
    \/ run_pending_return
    \/ sleep
    \/ FeedExchange
    \/ FeedSymbol
    \/ FeedStore
    \/ sfa_Collect
    \/ sfa_GatherReturn
    \/ sfa_GatherRaise
    \/ sfa_Evaluate
    \/ \E i \in 1..Len(tasks) : TaskStart(i)
    \/ \E i \in 1..Len(tasks) : TaskFinish(i)
    \/ \E i \in 1..Len(tasks) : TaskCancel(i)

SchedulerSpec == SchedulerInit /\ [][SchedulerNext]_vars

Next ==
    \/ FeedExchange
    \/ FeedSymbol
    \/ FeedStore
    \/ sfa_Collect
    \/ sfa_GatherReturn
    \/ sfa_GatherRaise
    \/ sfa_Evaluate
    \/ \E i \in 1..Len(tasks) : TaskStart(i)
    \/ \E i \in 1..Len(tasks) : TaskFinish(i)
    \/ \E i \in 1..Len(tasks) : TaskCancel(i)
    \/ CycleStart
    \/ Collect
    \/ GatherReturn
    \/ GatherRaise
    \/ Evaluate
    \/ CycleEnd
    \/ Wake
    \/ KeyboardInterrupt
    \/ CancelledError

Spec == Init /\ [][Next]_vars

\* ------------------------------------------------- the simulation on its own
\* The net profit simulation as a function of its inputs: the ticker map of
\* the two exchanges and the notional.  The prices are the positive tickers
\* of the scanners and four around 5000 that stand at the break-even of the
\* two fees: 5003 * (1 - 0.0004) = 4998 * (1 + 0.0006) and
\* 5002 * (1 - 0.0006) = 4997 * (1 + 0.0004).
SimulationTickers ==
    { t \in Tickers : t.bid > 0 /\ t.ask > 0 }
    \cup { Ticker(4990, 4998), Ticker(5003, 5010), Ticker(4990, 4997), Ticker(5002, 5010) }

SimulationMaps ==
    { << [exchange |-> EXCHANGES[1], bid |-> x.bid, ask |-> x.ask],
         [exchange |-> EXCHANGES[2], bid |-> y.bid, ask |-> y.ask] >> :
      x \in SimulationTickers, y \in SimulationTickers }

\* The notionals the simulation is run with; the scanners use the last.
Notionals == {1, 250, 777, trade_amount_usd}

SimulationInit ==
    /\ pc = "simulate"
    /\ tickers \in SimulationMaps
    /\ simulation \in { [NoSimulation EXCEPT !.trade_amount = a] : a \in Notionals }
    /\ log_file_handle = "None"
    /\ session = Session(EmptyTable)
    /\ configuration = "shipped"
    /\ scan_count = 0
    /\ opportunities_found = 0
    /\ scan_opportunities = 0
    /\ idx = 1
    /\ tasks = << >>
    /\ status = "none"
    /\ assets_done = 0
    /\ sink = << >>
    /\ save_error = FALSE
    /\ summary = [printed |-> FALSE, total_scans |-> 0, opportunities_found |-> 0]
    /\ interrupted_at = "none"
    /\ selected = NoSelection
    /\ return_value = Pending
    /\ exchange_idx = 1
    /\ symbol_idx = 1
    /\ new_market_data_points = << >>
    /\ fetch_ohlcv_calls = << >>
    /\ scheduler = NoScheduler

\* Lines 316-333 run in doubles on the ticker map, and the decision taken on
\* net_profit_usd > 0.
SimulationRun ==
    /\ pc = "simulate"
    /\ simulation' = float_SimulateAt(tickers, simulation.trade_amount)
    /\ status' = IF float_positive(simulation'.net_profit_usd)
                 THEN "opportunity" ELSE "no_opportunity"
    /\ selected' = Selection(tickers[best_bid_index(tickers)].exchange,
                           tickers[best_ask_index(tickers)].exchange)
    /\ pc' = "simulated"
    /\ UNCHANGED << scan_count, opportunities_found, scan_opportunities, idx, tasks,
                    tickers, assets_done, sink, save_error, log_file_handle, summary,
                    interrupted_at, return_value, configuration, scheduler >>
    /\ UNCHANGED feed_vars

SimulationNext == SimulationRun

SimulationSpec == SimulationInit /\ [][SimulationNext]_vars

\* ================================================================== claims
\* The exchanges whose task of the current list returned a tuple.
Usable == { i \in 1..Len(tasks) : tasks[i].result.kind = "tuple" }

\* The highest bid and the lowest ask of a ticker map.
MaxBid(t) == CHOOSE b \in { t[i].bid : i \in 1..Len(t) } :
                 \A i \in 1..Len(t) : t[i].bid <= b

MinAsk(t) == CHOOSE a \in { t[i].ask : i \in 1..Len(t) } :
                 \A i \in 1..Len(t) : t[i].ask >= a

\* The first exchange, in map order, that quotes the given bid / ask.
FirstWithBid(t, b) == t[CHOOSE i \in 1..Len(t) :
                          t[i].bid = b /\ \A j \in 1..(i - 1) : t[j].bid # b].exchange

FirstWithAsk(t, a) == t[CHOOSE i \in 1..Len(t) :
                          t[i].ask = a /\ \A j \in 1..(i - 1) : t[j].ask # a].exchange

\* The claim's net profit: the units bought for the notional at the lowest
\* ask plus the buy fee, sold at the highest bid less the sell fee.
ClaimNetProfit(t) ==
    LET buy_side == RMul(RInt(MinAsk(t)),
                         RAdd(RInt(1), FeeOf(FirstWithAsk(t, MinAsk(t)))))
        sell_side == RMul(RInt(MaxBid(t)),
                          RSub(RInt(1), FeeOf(FirstWithBid(t, MaxBid(t)))))
        units == RDiv(RInt(trade_amount_usd), buy_side)
    IN  RSub(RMul(units, sell_side), RMul(units, buy_side))

\* A step of the loop body of scan_continuously from the ticker map on.
ContinuousEvaluation == pc = "evaluate" /\ pc' # "stopped"

C2_FewerThanTwoQuotesNoOpportunity ==
    [][ /\ (ContinuousEvaluation /\ Cardinality(Usable) < 2) =>
             /\ status' = "insufficient"
             /\ opportunities_found' = opportunities_found
             /\ scan_opportunities' = scan_opportunities
             /\ sink' = sink
        /\ (pc = "sfa_evaluate" /\ Cardinality(Usable) < 2) =>
             status' = "insufficient"
      ]_vars

\* An asset with exactly one usable quote has been skipped in the second scan.
C2_Witness ==
    /\ status = "insufficient"
    /\ scan_count = 2
    /\ pc = "collect"

\* C3: a failure of one exchange's quote request, of whatever exception
\* type, never raises out of the collection: no task ends by raising and
\* neither entry point is left through a task's exception.
C3_FetchFailureNeverRaises ==
    /\ \A i \in 1..Len(tasks) : tasks[i].result.kind # "raised"
    /\ pc \notin {"crashed", "sfa_crashed"}

\* C4: the evaluation of an asset starts only when every fetch task issued
\* for it has ended, and the ticker map it reads holds every returned quote.
C4_EvaluationAfterAllFetches ==
    pc \in {"evaluate", "sfa_evaluate"} =>
        /\ \A i \in 1..Len(tasks) : tasks[i].st = "done"
        /\ Len(tickers) = Cardinality(Usable)
        /\ \A i \in Usable : \E k \in 1..Len(tickers) :
               /\ tickers[k].exchange = tasks[i].exchange
               /\ tickers[k].bid = tasks[i].result.bid
               /\ tickers[k].ask = tasks[i].result.ask

\* The evaluation is about to read a map built from one quote and one failure.
C4_Witness ==
    /\ pc = "evaluate"
    /\ Len(tasks) = 2
    /\ tasks[1].result.kind = "None"
    /\ tasks[2].result.kind = "tuple"
    /\ Len(tickers) = 1

\* C5: in continuous mode every detected opportunity is handed to the sink
\* exactly once, in the cycle that detected it, and nothing is handed to the
\* sink at any other step.
C5_DetectedHandedExactlyOnce ==
    /\ [][ IF /\ ContinuousEvaluation
              /\ Cardinality(Usable) >= 2
              /\ Simulate(tickers).net_profit_usd.n > 0
           THEN sink' = Append(sink, [scan_number |-> scan_count,
                                      base_currency |-> BaseCurrencies[idx],
                                      net_profit_sign |-> 1])
           ELSE sink' = sink
         ]_vars
    /\ [](\A i, j \in 1..Len(sink) :
            (/\ sink[i].scan_number = sink[j].scan_number
             /\ sink[i].base_currency = sink[j].base_currency) => i = j)
    /\ [](\A i \in 1..Len(sink) : sink[i].scan_number <= scan_count)

\* Two scans have each handed over the opportunity they detected.
C5_Witness ==
    /\ Len(sink) = 2
    /\ sink[1].scan_number = 1
    /\ sink[2].scan_number = 2
    /\ opportunities_found = 2

\* C6: a failed write of a record does not abort the loop: the step that
\* logs the failure goes on to the next asset or to the scan summary, and
\* the loop is left through an exception only when a fetch task raised.
C6_FailedWriteDoesNotAbort ==
    /\ [][ (pc = "evaluate" /\ ~save_error /\ save_error') =>
             /\ pc' = (IF idx < NumAssets THEN "collect" ELSE "cycle_end")
             /\ assets_done' = assets_done + 1
             /\ status' = "opportunity"
         ]_vars
    /\ [](pc = "crashed" =>
            \E i \in 1..Len(tasks) : tasks[i].result.kind = "raised")

\* The only record so far was handed over in scan 1 and its write failed;
\* scan 2 is evaluating.
C6_Witness ==
    /\ save_error
    /\ Len(sink) = 1
    /\ sink[1].scan_number = 1
    /\ scan_count = 2
    /\ pc = "evaluate"

\* C7: cycles never overlap: a scan starts only at the top of the loop,
\* when every asset of the scan before has been evaluated and no fetch task
\* is still running.
C7_CyclesNeverOverlap ==
    [][ scan_count' # scan_count =>
          /\ pc = "cycle_start"
          /\ scan_count' = scan_count + 1
          /\ scan_count = 0 \/ assets_done = NumAssets
          /\ \A i \in 1..Len(tasks) : tasks[i].st = "done"
      ]_vars

\* The second scan is fetching after the first one has handed over a record.
C7_Witness ==
    /\ scan_count = 2
    /\ pc = "gather"
    /\ \E i \in 1..Len(tasks) : tasks[i].st = "fetching"
    /\ Len(sink) = 1

\* The places of the loop where a scan is executing.
InCycle == {"collect", "gather", "evaluate"}

\* C8: a cancellation that arrives while a cycle is executing does not
\* interrupt it: when the coroutine has ended, every asset of that cycle has
\* been evaluated.
C8_CancellationLetsCycleFinish ==
    (pc \in {"stopped", "cancelled"} /\ interrupted_at \in InCycle) =>
        assets_done = NumAssets

\* C9: a cancellation that arrives during the sleep after cycle k starts no
\* further cycle, and the final summary reports k scans.
C9_CancelledInSleepReportsK ==
    (pc \in {"stopped", "cancelled"} /\ interrupted_at = "sleep") =>
        /\ assets_done = NumAssets
        /\ summary.printed
        /\ summary.total_scans = scan_count

\* C10: after a cancellation, in whatever form it reaches the coroutine,
\* scan_continuously ends stopped, with the final summary printed and the
\* session log closed by stop_logging.
C10_CancellationEndsWithSummary ==
    interrupted_at # "none" =>
        /\ pc = "stopped"
        /\ summary.printed
        /\ summary.total_scans = scan_count
        /\ summary.opportunities_found = opportunities_found
        /\ log_file_handle = "None"

\* C11: scan_continuously leaves its scan loop only on a cancellation: no
\* failure of a fetch (of any exception type), of an evaluation or of a sink
\* or log write takes the coroutine out of the try block.
C11_LoopLeftOnlyOnCancellation ==
    [][ (pc \in InTry /\ pc' \notin InTry) => pc' \in {"stopped", "cancelled"} ]_vars

\* C12: every client that fetch_ticker_for_exchange created is closed before
\* its task ends, and no client is open once the collection for an asset has
\* returned or raised.
C12_ClientsClosedAfterCollection ==
    /\ \A i \in 1..Len(tasks) : tasks[i].st = "done" => tasks[i].client # "open"
    /\ pc \notin {"gather", "sfa_gather"} =>
           \A i \in 1..Len(tasks) : tasks[i].client # "open"

\* The place of an exchange in the configured EXCHANGES order.
PositionIn(exchange) == CHOOSE i \in 1..Len(EXCHANGES) : EXCHANGES[i] = exchange

\* The usable quotes that offer the highest bid / the lowest ask.
HighestBidders ==
    { i \in Usable : \A j \in Usable : tasks[j].result.bid <= tasks[i].result.bid }

LowestAskers ==
    { i \in Usable : \A j \in Usable : tasks[j].result.ask >= tasks[i].result.ask }

\* C13: among the usable quotes of an asset the sell exchange is one with the
\* highest bid and the buy exchange one with the lowest ask, and of several
\* exchanges that tie the first in the EXCHANGES order is taken.
C13_BestQuotesFirstInOrder ==
    [][ ((ContinuousEvaluation \/ pc = "sfa_evaluate") /\ Cardinality(Usable) >= 2) =>
          /\ \E i \in HighestBidders :
                /\ selected'.best_bid_exchange = tasks[i].exchange
                /\ \A j \in HighestBidders :
                       PositionIn(tasks[i].exchange) <= PositionIn(tasks[j].exchange)
          /\ \E i \in LowestAskers :
                /\ selected'.best_ask_exchange = tasks[i].exchange
                /\ \A j \in LowestAskers :
                       PositionIn(tasks[i].exchange) <= PositionIn(tasks[j].exchange)
      ]_vars

\* Both exchanges bid 50200 and the asks differ: the sale went to the first
\* exchange of EXCHANGES, the purchase to the lower ask.
C13_Witness ==
    /\ Len(tickers) = 2
    /\ tickers[1].bid = tickers[2].bid
    /\ tickers[1].ask > tickers[2].ask
    /\ selected = Selection(EXCHANGES[1], EXCHANGES[2])
    /\ status = "opportunity"

\* Scenario A: exchange X (bitstamp, fee 0.04%) quotes bid 50000 / ask 50010
\* and exchange Y (bybit, fee 0.06%) quotes bid 50200 / ask 50210; the
\* notional is 10000.
ScenarioA_X == "bitstamp"

ScenarioA_Y == "bybit"

ScenarioA_Map ==
    << [exchange |-> ScenarioA_Y, bid |-> 50200, ask |-> 50210],
       [exchange |-> ScenarioA_X, bid |-> 50000, ask |-> 50010] >>

ScenarioA ==
    /\ tickers = ScenarioA_Map
    /\ FeeOf(ScenarioA_X) = Rat(4, 10000)
    /\ FeeOf(ScenarioA_Y) = Rat(6, 10000)
    /\ trade_amount_usd = 10000

\* C14: in Scenario A the evaluation finds a net profit > 0 (between 27 and
\* 28 on the notional of 10000) and reports an opportunity that buys on X
\* and sells on Y; the continuous loop hands it to the sink.
C14_ScenarioA ==
    [][ ((ContinuousEvaluation \/ pc = "sfa_evaluate") /\ ScenarioA) =>
          /\ status' = "opportunity"
          /\ selected' = Selection(ScenarioA_Y, ScenarioA_X)
          /\ RGt(Simulate(tickers).net_profit_usd, RInt(27))
          /\ RGt(RInt(28), sfa_Simulate(tickers).net_profit_usd)
          /\ ContinuousEvaluation =>
                /\ opportunities_found' = opportunities_found + 1
                /\ sink' = Append(sink, [scan_number |-> scan_count,
                                         base_currency |-> BaseCurrencies[idx],
                                         net_profit_sign |-> 1])
      ]_vars

\* The continuous loop has evaluated Scenario A and handed its record over.
C14_Witness ==
    /\ ScenarioA
    /\ status = "opportunity"
    /\ selected = Selection(ScenarioA_Y, ScenarioA_X)
    /\ Len(sink) = 1
    /\ opportunities_found = 1

\* C15: an asset for which fewer than two exchanges yield a usable quote is
\* skipped with the insufficient-data status and raises no error, and the
\* loop goes on to the next asset of the cycle.
C15_TooFewQuotesSkippedCycleGoesOn ==
    /\ [][ (ContinuousEvaluation /\ Cardinality(Usable) < 2) =>
             /\ status' = "insufficient"
             /\ assets_done' = assets_done + 1
             /\ pc' = (IF idx < NumAssets THEN "collect" ELSE "cycle_end")
         ]_vars
    /\ [](pc \in {"crashed", "sfa_crashed"} => Cardinality(Usable) >= 2)

\* C16: scan_for_arbitrage returns the opportunities of its cycle as a
\* collection, empty when none was found and with an element for an asset
\* whose net profit was > 0.
C16_OneShotReturnsOpportunities ==
    pc = "sfa_returned" =>
        /\ return_value.kind = "list"
        /\ Len(return_value.items) <= NumAssets
        /\ status = "opportunity" => Len(return_value.items) >= 1

\* The steps the event loop and the interpreter take on their own: a task
\* that is ready runs, a coroutine whose await is over is resumed, a sleep
\* ends, the tasks left behind by a coroutine that has ended are cancelled,
\* synchronous code runs on.  The answer of an exchange (TaskFinish) and a
\* cancellation signal are not among them.
Scheduled ==
    \/ \E i \in 1..Len(tasks) : TaskStart(i)
    \/ \E i \in 1..Len(tasks) : TaskCancel(i)
    \/ CycleStart
    \/ Collect
    \/ GatherReturn
    \/ GatherRaise
    \/ CycleEnd
    \/ Wake
    \/ sfa_Collect
    \/ sfa_GatherReturn
    \/ sfa_GatherRaise
    \/ FeedExchange
    \/ FeedSymbol
    \/ FeedStore

\* The synchronous evaluation of a ticker map is always able to run and
\* always leaves its position, so weak fairness of Evaluate and of
\* sfa_Evaluate says exactly that the loop is never at that position for
\* ever.
EvaluationRuns == []<>(pc \notin {"evaluate", "sfa_evaluate"})

\* The program under a running event loop: as long as one of these steps
\* can be taken, one is taken.
FairSpec == Spec /\ WF_vars(Scheduled) /\ EvaluationRuns

\* C17: every collection for one asset terminates: a request that is never
\* answered is abandoned after a bounded wait and the loop goes on.
C17_CollectionTerminates ==
    (pc \in {"gather", "sfa_gather"}) ~> (pc \notin {"gather", "sfa_gather"})

\* The candle times stored for a pair, in milliseconds.
StoredTimes(exchange_name, symbol) ==
    { CandleTimes[k] : k \in { j \in 1..Len(CandleTimes) :
          [exchange |-> exchange_name, symbol |-> symbol,
           timestamp |-> [us |-> CandleTimes[j] * 1000]] \in session.table } }

\* C18: every call of fetch_ohlcv is made with since = None when the table
\* holds no row of that exchange and symbol, and otherwise with the time of
\* the latest such row in milliseconds plus 1, which is later than every
\* stored candle of the pair.
C18_SinceFollowsLatestRecord ==
    [][ fetch_ohlcv_calls' # fetch_ohlcv_calls =>
          LET call == fetch_ohlcv_calls'[Len(fetch_ohlcv_calls')]
              stored == StoredTimes(call.exchange, call.symbol)
          IN  /\ fetch_ohlcv_calls' = Append(fetch_ohlcv_calls, call)
              /\ IF stored = {}
                 THEN call.since.none
                 ELSE /\ ~call.since.none
                      /\ (call.since.ms - 1) \in stored
                      /\ \A t \in stored : t < call.since.ms
      ]_vars

\* One run has asked a pair without rows from the beginning and a pair with
\* two stored candles from 120001 on.
C18_Witness ==
    /\ pc = "feed_done"
    /\ \E i, j \in 1..Len(fetch_ohlcv_calls) :
          /\ fetch_ohlcv_calls[i].since = Since(TRUE, 0)
          /\ fetch_ohlcv_calls[j].since = Since(FALSE, 120001)

\* The candles the calls of fetch_ohlcv have returned, as rows.
FetchedRows ==
    UNION { { [exchange |-> fetch_ohlcv_calls[i].exchange,
               symbol |-> fetch_ohlcv_calls[i].symbol,
               timestamp |-> [us |-> fetch_ohlcv_calls[i].returned[k] * 1000]] :
                 k \in 1..Len(fetch_ohlcv_calls[i].returned) } :
            i \in 1..Len(fetch_ohlcv_calls) }

CyclesCompleted ==
    IF scan_count > 0 /\ assets_done < NumAssets THEN scan_count - 1 ELSE scan_count

\* C20: whenever the cancellation arrives, the scan count of the final
\* summary is the number of cycles that ran to completion.
C20_SummaryCountsCompletedCycles ==
    summary.printed => summary.total_scans = CyclesCompleted

\* The exchange lists a pair whose base is the asset.
HasPair(exchange, base_currency) ==
    /\ exchange \in DOMAIN exchange_trading_pairs
    /\ \E k \in 1..Len(exchange_trading_pairs[exchange]) :
           exchange_trading_pairs[exchange][k].base = base_currency

\* The requests (calls of fetch_ticker_for_exchange) made to an exchange for
\* the asset being collected.
RequestsTo(exchange) == { i \in 1..Len(tasks) : tasks[i].exchange = exchange }

\* C21: for each asset of each cycle, one request goes to every exchange of
\* EXCHANGES that lists a pair of that base, for that pair, and none to an
\* exchange without such a pair or without an entry in
\* EXCHANGE_TRADING_PAIRS; a missing mapping is skipped without an error.
C21_OneRequestPerMappedExchange ==
    /\ [](pc \in {"gather", "sfa_gather"} =>
            /\ \A e \in 1..Len(EXCHANGES) :
                  Cardinality(RequestsTo(EXCHANGES[e])) =
                      IF HasPair(EXCHANGES[e], BaseCurrencies[idx]) THEN 1 ELSE 0
            /\ \A i \in 1..Len(tasks) :
                  /\ \E e \in 1..Len(EXCHANGES) : tasks[i].exchange = EXCHANGES[e]
                  /\ tasks[i].symbol.base = BaseCurrencies[idx]
                  /\ \E k \in 1..Len(exchange_trading_pairs[tasks[i].exchange]) :
                         exchange_trading_pairs[tasks[i].exchange][k] = tasks[i].symbol)
    /\ [][ Len(tasks') > Len(tasks) =>
             /\ pc \in {"collect", "sfa_collect"}
             /\ pc' \in {"gather", "sfa_gather"}
             /\ tasks = << >> ]_vars

\* In the second scan of a run whose bybit does not list SHIB, one request
\* for SHIB has gone out, to bitstamp, after XLM was asked from both.
C21_Witness ==
    /\ pc = "gather"
    /\ scan_count = 2
    /\ BaseCurrencies[idx] = "SHIB"
    /\ "bybit" \in DOMAIN exchange_trading_pairs
    /\ ~HasPair("bybit", "SHIB")
    /\ Len(tasks) = 1
    /\ tasks[1].exchange = "bitstamp"
    /\ tasks[1].st = "fetching"

\* A run without an entry for bitstamp has asked bybit alone.
C21_WitnessNoEntry ==
    /\ pc = "gather"
    /\ "bitstamp" \notin DOMAIN exchange_trading_pairs
    /\ Len(tasks) = 1
    /\ tasks[1].exchange = "bybit"

\* C22: every quote of the ticker map has bid > 0 and ask > 0, and no task
\* returns a tuple for a ticker whose bid or ask is missing, zero or not
\* positive.
C22_QuotesPositive ==
    /\ \A k \in 1..Len(tickers) : tickers[k].bid > 0 /\ tickers[k].ask > 0
    /\ \A i \in Usable : tasks[i].result.bid > 0 /\ tasks[i].result.ask > 0

\* The exchanges with a usable quote, and the usable quotes laid out in the
\* order of EXCHANGES, from the results alone.
UsableExchanges == { tasks[i].exchange : i \in Usable }

QuoteOf(exchange) ==
    LET i == CHOOSE j \in Usable : tasks[j].exchange = exchange
    IN  [exchange |-> exchange, bid |-> tasks[i].result.bid, ask |-> tasks[i].result.ask]

QuoteSetInOrder ==
    [k \in 1..Cardinality(UsableExchanges) |->
        QuoteOf(CHOOSE e \in UsableExchanges :
                    Cardinality({ f \in UsableExchanges :
                                    PositionIn(f) < PositionIn(e) }) = k - 1)]

\* C23: the ticker map of an asset and the exchanges selected from it are
\* determined by what each exchange returned: in whatever order the fetches
\* ended, the map lists the usable quotes in the order of EXCHANGES and the
\* decision, ties included, is the one taken on that map.
C23_CompletionOrderIrrelevant ==
    /\ [](pc \in {"evaluate", "sfa_evaluate"} => tickers = QuoteSetInOrder)
    /\ [][ ((ContinuousEvaluation \/ pc = "sfa_evaluate")
               /\ Cardinality(UsableExchanges) >= 2) =>
             /\ selected' =
                   Selection(FirstWithBid(QuoteSetInOrder, MaxBid(QuoteSetInOrder)),
                             FirstWithAsk(QuoteSetInOrder, MinAsk(QuoteSetInOrder)))
             /\ status' = IF ClaimNetProfit(QuoteSetInOrder).n > 0
                          THEN "opportunity" ELSE "no_opportunity"
         ]_vars

\* bitstamp answered before bybit with the same bid; the map that the
\* evaluation is about to read lists bybit first.
C23_Witness ==
    /\ pc = "evaluate"
    /\ Len(tasks) = 2
    /\ tasks[1].finished = 2
    /\ tasks[2].finished = 1
    /\ tasks[1].result.kind = "tuple"
    /\ tasks[2].result.kind = "tuple"
    /\ tasks[1].result.bid = tasks[2].result.bid
    /\ tickers[1].exchange = EXCHANGES[1]
    /\ tickers[2].exchange = EXCHANGES[2]

\* A fetch task of the current list is under way: started or not, it has
\* not ended.
FetchInFlight == \E i \in 1..Len(tasks) : tasks[i].st # "done"

\* A step of a fetch task: the state of one task of the list changes and
\* the main coroutine stays where it is.
FetchTaskStep ==
    /\ pc' = pc
    /\ Len(tasks') = Len(tasks)
    /\ \E i \in 1..Len(tasks) : tasks'[i] # tasks[i]

\* C24: scan_count and opportunities_found are changed only by steps of the
\* scan_continuously loop itself (the top of the while body and the
\* evaluation of an asset), by one at a time and while no fetch task is
\* under way; no step of a fetch task changes them.
C24_CountersHaveSingleWriter ==
    [][ /\ scan_count' # scan_count =>
              /\ pc = "cycle_start" /\ pc' = "collect"
              /\ scan_count' = scan_count + 1
              /\ ~FetchInFlight
        /\ opportunities_found' # opportunities_found =>
              /\ pc = "evaluate" /\ pc' \in {"collect", "cycle_end"}
              /\ opportunities_found' = opportunities_found + 1
              /\ ~FetchInFlight
        /\ FetchTaskStep =>
              /\ scan_count' = scan_count
              /\ opportunities_found' = opportunities_found
      ]_vars

\* In the second scan, after an opportunity was counted in the first, one
\* fetch task has ended and the other is still fetching.
C24_Witness ==
    /\ pc = "gather"
    /\ scan_count = 2
    /\ opportunities_found = 1
    /\ Len(tasks) = 2
    /\ tasks[1].st = "fetching"
    /\ tasks[2].st = "done"
    /\ tasks[2].result.kind = "tuple"

\* C25: the session log opened by start_logging is closed on every exit
\* path of scan_continuously: once the coroutine has ended, by a
\* cancellation or by an exception that escaped the loop, the module-level
\* handle is not left open.
C25_LogClosedOnEveryExit ==
    pc \in {"stopped", "cancelled", "crashed"} => log_file_handle = "None"

\* The market type a request must carry by the rule of the claim.
MarketTypeRule(exchange, symbol) ==
    CASE exchange = "bybit" /\ symbol = Pair("SHIB", "USDT") -> "spot"
      [] exchange = "bybit" -> "future"
      [] OTHER -> "none"

\* C26: the market type of a request depends on its exchange and symbol
\* only: spot for bybit's SHIB/USDT, future for every other bybit symbol, no
\* override for another exchange; with the shipped configuration every
\* bybit perpetual pair is asked as future and bybit's SHIB pair as spot.
C26_MarketTypeByExchangeAndSymbol ==
    \A i \in 1..Len(tasks) :
        /\ (tasks[i].st = "fetching" \/ tasks[i].client # "none" \/ tasks[i].finished > 0) =>
               tasks[i].defaultType # "unset"
        /\ tasks[i].defaultType # "unset" =>
            /\ tasks[i].defaultType = MarketTypeRule(tasks[i].exchange, tasks[i].symbol)
            /\ (exchange_trading_pairs = EXCHANGE_TRADING_PAIRS
                    /\ tasks[i].exchange = "bybit") =>
                   /\ tasks[i].symbol.rest = "USDT:USDT" => tasks[i].defaultType = "future"
                   /\ tasks[i].symbol.base = "SHIB" => tasks[i].defaultType = "spot"

\* With the shipped configuration, in the second scan, SHIB is being asked
\* from bybit as spot and from bitstamp without an override.
C26_Witness ==
    /\ exchange_trading_pairs = EXCHANGE_TRADING_PAIRS
    /\ pc = "gather"
    /\ scan_count = 2
    /\ Len(tasks) = 2
    /\ tasks[1].exchange = "bybit"
    /\ tasks[1].symbol = Pair("SHIB", "USDT")
    /\ tasks[1].st = "fetching"
    /\ tasks[1].defaultType = "spot"
    /\ tasks[2].exchange = "bitstamp"
    /\ tasks[2].st = "fetching"
    /\ tasks[2].defaultType = "none"

\* C27: for an asset with at least two quotes and no opportunity reported,
\* the gross spread percentage is at most the displayed required spread
\* (buy_fee + sell_fee) * 100, so the deficit is never negative: a gross
\* spread above the displayed requirement always yields an opportunity.
C27_NoOpportunityWithinRequiredSpread ==
    [][ /\ (ContinuousEvaluation /\ status' = "no_opportunity") =>
              /\ ~RGt(Simulate(tickers).gross_spread_percentage,
                      required_spread(Simulate(tickers)))
              /\ spread_deficit(Simulate(tickers)).n >= 0
        /\ (pc = "sfa_evaluate" /\ status' = "no_opportunity") =>
              /\ ~RGt(sfa_Simulate(tickers).gross_spread_percentage,
                      required_spread(sfa_Simulate(tickers)))
              /\ spread_deficit(sfa_Simulate(tickers)).n >= 0
      ]_vars

\* C28: every opportunity reported or handed to the sink names two
\* different exchanges: the exchange bought on is never the exchange sold
\* on, also when one exchange has both the highest bid and the lowest ask.
C28_BuyAndSellExchangesDiffer ==
    (/\ status = "opportunity"
     /\ \A k \in 1..Len(tickers) : tickers[k].bid > 0 /\ tickers[k].ask > 0) =>
        selected.best_ask_exchange # selected.best_bid_exchange

\* best_bid * (1 - sell_fee) > best_ask * (1 + buy_fee), of the fees as written
\* in EXCHANGE_FEES.
NetPricesCross(t) ==
    LET bid == t[best_bid_index(t)]
        ask == t[best_ask_index(t)]
    IN  RGt(RMul(RInt(bid.bid), RSub(RInt(1), FeeOf(bid.exchange))),
            RMul(RInt(ask.ask), RAdd(RInt(1), FeeOf(ask.exchange))))

\* C29: the decision does not depend on the simulated notional: for every
\* notional the simulation reports an opportunity exactly when
\* best_bid * (1 - sell_fee) > best_ask * (1 + buy_fee), which is also the
\* decision it takes at the scanners' notional, and its total_buy_cost is the
\* notional.
C29_DecisionIndependentOfNotional ==
    pc = "simulated" =>
        /\ (status = "opportunity") <=>
               NetPricesCross(tickers)
        /\ (status = "opportunity") <=>
               float_positive(float_SimulateAt(tickers, trade_amount_usd).net_profit_usd)
        /\ simulation.total_buy_cost = float(simulation.trade_amount)

\* On the tickers of the scanners and their notional the sign of the net
\* profit in doubles is the sign of the exact one: the exact arithmetic of
\* Simulate decides as the code does there.
ExactDecisionOnScannerTickers ==
    (/\ pc = "simulated"
     /\ simulation.trade_amount = trade_amount_usd
     /\ \A k \in 1..Len(tickers) : Ticker(tickers[k].bid, tickers[k].ask) \in Tickers) =>
        ((status = "opportunity") <=> Profitable(Simulate(tickers)))

\* The records handed to save_opportunity_to_file during scan k.
HandedInScan(k) == { i \in 1..Len(sink) : sink[i].scan_number = k }

\* C30: at every point of a continuous session opportunities_found is the
\* number of calls made to save_opportunity_to_file so far, whether the
\* writes went through or not; it never decreases, it grows by one with a
\* call made for the running scan, and by at most the number of assets
\* during one scan.
C30_CountsCallsToSave ==
    /\ [](opportunities_found = Len(sink))
    /\ [][ /\ opportunities_found' >= opportunities_found
           /\ opportunities_found' # opportunities_found =>
                 /\ opportunities_found' = opportunities_found + 1
                 /\ Len(sink') = Len(sink) + 1
                 /\ sink'[Len(sink')].scan_number = scan_count
         ]_vars
    /\ [](\A k \in 1..MaxScans : Cardinality(HandedInScan(k)) <= NumAssets)

\* A write has failed, and the second scan has counted an opportunity for
\* every asset after the first had counted one.
C30_Witness ==
    /\ save_error
    /\ opportunities_found = NumAssets + 1
    /\ Cardinality(HandedInScan(2)) = NumAssets
    /\ pc = "cycle_end"

\* C31: within a continuous session the records reach the sink in
\* non-decreasing scan_number order, no two of them with the same
\* (scan_number, base_currency); a record is handed over by the evaluation
\* of the running cycle only, and carries that cycle's index (the cycles
\* completed so far and one) and the asset under evaluation.
C31_RecordsInScanOrder ==
    /\ [](\A i, j \in 1..Len(sink) : i < j =>
              \/ sink[i].scan_number < sink[j].scan_number
              \/ /\ sink[i].scan_number = sink[j].scan_number
                 /\ sink[i].base_currency # sink[j].base_currency)
    /\ [][ sink' # sink =>
              /\ pc = "evaluate"
              /\ Len(sink') = Len(sink) + 1
              /\ SubSeq(sink', 1, Len(sink)) = sink
              /\ sink'[Len(sink')].scan_number = CyclesCompleted + 1
              /\ sink'[Len(sink')].base_currency = BaseCurrencies[idx]
         ]_vars

\* The sink holds a record of the last asset of the first scan and, behind
\* it, records of both assets of the second.
C31_Witness ==
    /\ Len(sink) = 3
    /\ sink[1].scan_number = 1
    /\ sink[1].base_currency = BaseCurrencies[NumAssets]
    /\ sink[2].scan_number = 2
    /\ sink[3].scan_number = 2
    /\ sink[2].base_currency # sink[3].base_currency

\* What the loop body of scan_continuously makes of the results of an
\* asset's fetch tasks, and what that of scan_for_arbitrage makes of them:
\* the outcome, and the exchanges selected unless the asset is skipped.
Outcome(results) ==
    LET t == BuildTickers(results)
        sim == Simulate(t)
    IN  IF Insufficient(t) THEN [status |-> "insufficient", selected |-> NoSelection]
        ELSE [status |-> IF Profitable(sim) THEN "opportunity" ELSE "no_opportunity",
              selected |-> Selected(sim)]

sfa_Outcome(results) ==
    LET t == sfa_BuildTickers(results)
        sim == sfa_Simulate(t)
    IN  IF sfa_Insufficient(t) THEN [status |-> "insufficient", selected |-> NoSelection]
        ELSE [status |-> IF sfa_Profitable(sim) THEN "opportunity" ELSE "no_opportunity",
              selected |-> Selected(sim)]

\* C32: on the same fetch results and configuration the two scanners reach
\* the same outcome for an asset, with the same buy and sell exchange: the
\* evaluation of a cycle of scan_continuously ends as scan_for_arbitrage's
\* would on these results, that of scan_for_arbitrage as scan_continuously's
\* would, and both ask the same exchanges for the same pairs.
C32_OneShotAndCycleAgree ==
    /\ [][ ContinuousEvaluation =>
              [status |-> status', selected |-> selected'] = sfa_Outcome(tasks)
         ]_vars
    /\ [][ pc = "sfa_evaluate" =>
              [status |-> status', selected |-> selected'] = Outcome(tasks)
         ]_vars
    /\ [](pc \in {"gather", "sfa_gather"} =>
            /\ Len(tasks) = Len(CreateTasks(BaseCurrencies[idx]))
            /\ Len(tasks) = Len(sfa_CreateTasks(BaseCurrencies[idx]))
            /\ \A i \in 1..Len(tasks) :
                  /\ tasks[i].exchange = CreateTasks(BaseCurrencies[idx])[i].exchange
                  /\ tasks[i].symbol = sfa_CreateTasks(BaseCurrencies[idx])[i].symbol)

\* The one-shot pass has reported an opportunity between two exchanges, at
\* a net profit that a spread above zero alone does not give.
C32_Witness ==
    /\ pc \in {"sfa_collect", "sfa_returned"}
    /\ assets_done > 0
    /\ status = "opportunity"
    /\ Len(tickers) = 2
    /\ selected.best_ask_exchange # selected.best_bid_exchange

\* The one-shot pass has reported no opportunity on a positive gross spread.
C32_WitnessNearMiss ==
    /\ pc \in {"sfa_collect", "sfa_returned"}
    /\ assets_done > 0
    /\ status = "no_opportunity"
    /\ Len(tickers) = 2
    /\ RGt(Simulate(tickers).best_bid, Simulate(tickers).best_ask)

\* The places of a run of scan_for_arbitrage.
OneShot == {"sfa_collect", "sfa_gather", "sfa_evaluate", "sfa_returned", "sfa_crashed"}

\* C33: a one-shot scan_for_arbitrage never writes to the opportunity sink
\* or to the session log: from its call to its end, whether it returns or a
\* fetch task's exception leaves it, no record is handed to
\* save_opportunity_to_file, no failed write is logged and _log_file_handle
\* stays None, also when it detects an opportunity.
C33_OneShotWritesNothing ==
    /\ [](pc \in OneShot =>
            /\ sink = << >>
            /\ ~save_error
            /\ log_file_handle = "None")
    /\ [][ (pc \in OneShot) =>
              /\ pc' \in OneShot
              /\ sink' = sink
              /\ log_file_handle' = log_file_handle
         ]_vars

\* The pass has ended after an opportunity on its last asset, the sink
\* empty.
C33_Witness ==
    /\ pc = "sfa_returned"
    /\ return_value = PyNone
    /\ status = "opportunity"
    /\ assets_done = NumAssets
    /\ sink = << >>

\* The steps of the scheduler that are taken whenever they can be: those of
\* the loop and the wrappers, of the synchronous fetch_market_data and of the
\* event loop of asyncio.run.  The answer of an exchange to a fetch task is
\* not among them.
SchedulerSteps ==
    \/ run_pending
    \/ run_feed_job
    \/ run_feed_job_end
    \/ run_scan_job
    \/ run_scan_job_end
    \/ run_pending_return
    \/ sleep
    \/ FeedExchange
    \/ FeedSymbol
    \/ FeedStore
    \/ sfa_Collect
    \/ sfa_GatherReturn
    \/ sfa_GatherRaise
    \/ \E i \in 1..Len(tasks) : TaskStart(i)
    \/ \E i \in 1..Len(tasks) : TaskCancel(i)

FairSchedulerSpec == SchedulerSpec /\ WF_vars(SchedulerSteps) /\ EvaluationRuns

\* The call made by a wrapper has ended with an exception.
JobFailed == pc \in {"feed_raised", "sfa_crashed"}

====
